---- MODULE Spec2Model ----
(***************************************************************************)
(* Verification model of the OpenCLRayTracer acceleration-structure core:  *)
(* the linear BVH (radix tree over sorted Morton codes), the bitonic       *)
(* sorter, the prefix sum and the two-level grid.                          *)
(*                                                                         *)
(* Numbers: device floats are modelled by integers (all model coordinates  *)
(* are exactly representable, so no rounding takes place); unsigned 32-bit *)
(* values are modelled by naturals that stay far below 2^31.               *)
(***************************************************************************)
EXTENDS Integers, Sequences, FiniteSets, TLC

VARIABLES
    phase,          \* which pipeline stage of the modelled run is active
    numLeaves,      \* BVH: number of leaves N (= number of triangles)
    mcToLeaves,     \* BVH: sorted Morton pairs, index 0..N-1 -> [x |-> key, y |-> leaf]
    nodes,          \* BVH: node array, index 0..2N-2 -> [parent, childA, childB, type]
    boundingBox,    \* BVH: per node, its AABB [lo |-> <<x,y,z>>, hi |-> <<x,y,z>>]
    constructed,    \* BVH: internal indices idx whose work item has run constructNode
    parentWrites    \* BVH: per node, number of stores made to its parent field (history)

bvhVars == <<numLeaves, mcToLeaves, nodes, boundingBox, constructed, parentWrites>>

VARIABLES
    sortItems,      \* BitonicSort::sort: num_items
    sortInput,      \* the pair array as it was handed to sort (history)
    sortData,       \* the device pair array, index 0..num_items-1 -> [x |-> key, y |-> value]
    sortLength,     \* loop variable length
    sortInc,        \* loop variable inc
    sortPc,         \* position in sort: "for", "while" or "return"
    sortKid,        \* kernel id of the most recent launch ("none" before the first)
    sortResult      \* "none" while running, then "Success" or "Error"

sortVars == <<sortItems, sortInput, sortData, sortLength, sortInc, sortPc, sortKid, sortResult>>

VARIABLES
    scanSize,       \* PrefixSum::computePrefixSum: size
    scanInput,      \* the input buffer, index 0..size-1 -> unsigned
    scanOutput,     \* the output buffer, index 0..size-1 -> unsigned
    scanOffset,     \* loop variable offset
    scanPc,         \* position: "check", "for", "group", "global" or "return"
    scanResult,     \* "none" while running, then "Success" or "Error"
    scanDevice,     \* [wg |-> _maxWorkgroupSize, localMem |-> _deviceLocalMemory]
    scanLaunches    \* number of kernels enqueued by this call (history)

scanVars == <<scanSize, scanInput, scanOutput, scanOffset, scanPc, scanResult,
              scanDevice, scanLaunches>>

VARIABLES
    nodeVisitCounters,  \* BVH: per internal index 0..N-2, the atomic visit counter
    bbThread,           \* bounding-box kernel: per leaf work item [pc, current]
    bbMerges            \* per node, number of mergeBoundingBox calls on it (history)

bbVars == <<nodeVisitCounters, bbThread, bbMerges>>

VARIABLES
    travScene,      \* per triangle (= leaf) index, its vertices <<vert0, vert1, vert2>>
    travRay,        \* the ray [origin |-> <<x,y,z>>, direction |-> <<x,y,z>>]
    travCurrent,    \* bvh_generate_contact: currentIdx
    travStack,      \* the stack entries below stackPointer, bottom first
    travBest,       \* resContactData.w as a fraction [num, den]
    travPc,         \* "loop" inside the do-while, "done" after the return
    travResult,     \* contactDist of the returned Contact as a fraction
    travMaxDepth    \* largest value stackPointer has had (history)

travVars == <<travScene, travRay, travCurrent, travStack, travBest, travPc, travResult,
              travMaxDepth>>

VARIABLES
    gridScene,       \* per global triangle index 0..n-1, its vertices <<v0, v1, v2>>
    gridData,        \* GridData: [res, step, leafDensity, box]
    gridDevice       \* [wavefront |-> _wavefront, localMem |-> _deviceLocalMemory]

gridInputs == <<gridScene, gridData, gridDevice>>

VARIABLES
    counters,        \* TwoLevelGridManager::construct: _counters, index 0..size-1
    prefixSumOutput, \* _prefixSumOutput, same index set
    pairsCount,      \* _pairsCount
    pairsArray,      \* _pairsArray, index 0..size-1 -> [x |-> cell, y |-> triangle]
    cellRangesArray, \* _cellRangesArray, per top-level cell [x |-> begin, y |-> end]
    gridPc,          \* position in construct: the kernel or call that is under way
    gridItems,       \* work items (work groups) of the running kernel that have finished
    gridResult       \* "none" while running, "Error" once construct has returned Error

gridBuildVars == <<counters, prefixSumOutput, pairsCount, pairsArray, cellRangesArray,
                   gridPc, gridItems, gridResult>>

VARIABLES
    tlgRay,          \* tlg_generate_contact: the ray [origin, direction]
    topLevelCells,   \* per top-level cell [res |-> <<x,y,z>>, firstLeafIdx |-> n]
    leavesArray,     \* per leaf cell, the triangles its range of the leaf pair array names
    tlgIdx,          \* idx[3] of the outer loop
    tlgNext,         \* next[3] of the outer loop
    tlgPc,           \* "setup", "loop" or "done"
    tlgResult,       \* contactDist of the returned Contact as a fraction
    tlgLeaf          \* leaf cell whose triangle was returned, -1 if none (history)

tlgVars == <<tlgRay, topLevelCells, leavesArray, tlgIdx, tlgNext, tlgPc, tlgResult, tlgLeaf>>

VARIABLES
    clBuffer,        \* a CLBuffer: [size, actualSize, mem, data]; sizes in elements, mem
                     \* the device memory object (0: none), data its contents per element
    frameNo,         \* number of the current frame (0 before the first)
    framePc,         \* "frame" between frames, "built" after construct
    frameRead        \* what the last read of a leaf range by generateContacts returned

frameVars == <<clBuffer, frameNo, framePc, frameRead>>

VARIABLES
    refScene,             \* getTriangleRefByIndex: per model, per submesh, numberOfTriangles
    triangleIndex,        \* the global triangle index asked for
    currentModelIndex,    \* local of the same name (-1 before the first iteration)
    currentSubmeshIndex,  \* local of the same name
    accumulatedTriangles, \* local of the same name
    refPc,                \* "model", "mesh", "return" or "undefined"
    refResult             \* the returned CL_UINT3 as <<x, y, z>>

refVars == <<refScene, triangleIndex, currentModelIndex, currentSubmeshIndex,
             accumulatedTriangles, refPc, refResult>>

VARIABLES
    resizeArg,       \* CLBuffer::resize: newSize of the last call (-1 before the first)
    resizePrev       \* the CLBuffer as it was when the last call was made (history)

resizeVars == <<resizeArg, resizePrev>>

VARIABLES
    mainConfig,      \* viewer: the globals that configure has set from the command line
    mainPc,          \* "configure", "init", "loop" or "exited"
    mainStep,        \* number of the checked initialisation call that is next
    mainExit,        \* value returned by main (meaningful once mainPc = "exited")
    mainFailedStep   \* the initialisation call that returned Error, 0 if none (history)

mainVars == <<mainConfig, mainPc, mainStep, mainExit, mainFailedStep>>

VARIABLES
    launchProgram,   \* the kernel launches of the running call in order, each
                     \* [kernel, global, local, event]: the work sizes and whether the
                     \* CLKernelExecuteParams of the launch was given &evt
    launchIdx,       \* number of the launch that is next or under way (1-based)
    launchPc,        \* "enqueue", "flush", "wait" or "return"
    launchEvt,       \* CLEvent evt: 0 when clEvent is NULL, else the launch it belongs to
    launchStatus,    \* per launch "none", "queued", "submitted" or "complete"
    launchResult     \* "none" while running, then "Success" or "Error"

launchVars == <<launchProgram, launchIdx, launchPc, launchEvt, launchStatus, launchResult>>

VARIABLES
    leafPairsCount,  \* TwoLevelGridManager::_leafPairsCount
    leafPairsArray   \* contents of _leafPairsArray, one [x, y] pair per element

leafVars == <<leafPairsCount, leafPairsArray>>

VARIABLES
    memReleases,     \* per device memory object created, the number of clReleaseMemObject calls on it
    bufferState      \* lifetime of the CLBuffer object: "alive" or "destroyed" ("none": not modelled)

lifeVars == <<memReleases, bufferState>>

hostVars == <<refVars, resizeVars, mainVars, launchVars, leafVars, lifeVars>>

gridVars == <<gridInputs, gridBuildVars, tlgVars, frameVars, hostVars>>

vars == <<phase, bvhVars, sortVars, scanVars, bbVars, travVars, gridVars>>

\* What the operations of one component leave alone.
notBvhVars == <<phase, sortVars, scanVars, bbVars, travVars, gridVars>>
notSortVars == <<phase, bvhVars, scanVars, bbVars, travVars, gridVars>>
notScanVars == <<phase, bvhVars, sortVars, bbVars, travVars, gridVars>>
notBoxVars == <<phase, sortVars, scanVars, travVars, gridVars, numLeaves, mcToLeaves, nodes,
                constructed, parentWrites>>
notTravVars == <<phase, bvhVars, sortVars, scanVars, bbVars, gridVars, travScene, travRay>>
notGridVars == <<phase, bvhVars, bbVars, travVars, gridInputs, tlgVars, frameVars, hostVars>>
notTlgVars == <<phase, bvhVars, sortVars, scanVars, bbVars, travVars, gridInputs,
                gridBuildVars, tlgRay, topLevelCells, leavesArray, frameVars, hostVars>>
notFrameVars == <<phase, bvhVars, sortVars, scanVars, bbVars, travVars, hostVars>>

(***************************************************************************)
(* Bounds of the model                                                     *)
(***************************************************************************)
MaxLeaves == 5          \* largest number of BVH leaves explored
MaxKey == 7             \* Morton keys are drawn from 0..MaxKey
MaxSortLog == 4         \* sort inputs have 2^0 .. 2^MaxSortLog entries
MaxSortKey == 1         \* real sort keys are drawn from 0..MaxSortKey
MaxSortReal == 8        \* at most this many entries of a sort input are real pairs
MaxScanSize == 8        \* prefix-sum inputs have 1 .. MaxScanSize entries
MaxScanValue == 2       \* prefix-sum input values are drawn from 0..MaxScanValue
MaxScanReal == 4        \* entries of a prefix-sum input past this index are zero padding
MaxWorkGroupLog == 1    \* device work-group sizes are 2^0 .. 2^MaxWorkGroupLog
MaxBoxLeaves == 5       \* largest number of leaves in the bounding-box propagation
MaxTravLeaves == 5      \* largest number of triangles in a traversed BVH
MaxTravKey == 2         \* Morton keys of a traversed BVH are 0..MaxTravKey
MaxBoxKey == 3          \* Morton keys of the bounding-box propagation are 0..MaxBoxKey
MaxFrames == 2          \* frames of a multi-frame run
MaxGridTris == 3        \* triangles of a grid scene: 1..MaxGridTris

(***************************************************************************)
(* Program constants                                                       *)
(***************************************************************************)
\* Sentinel "no node" / padding key.  The program uses 0xFFFFFFFF; the model
\* uses the largest integer TLC represents, which is likewise above every key
\* and every index that occurs.
UINT_MAX == 2147483647
LEAF_NODE == 1
INNER_NODE == 0
\* Value of a node field that no work item has stored to yet.
Unwritten == -1
\* <float.h> limits on the model's integer scale: every coordinate of the
\* model is an even integer, so 1 is a positive value below every positive
\* coordinate (FLT_MIN is the smallest positive normal float, not the most
\* negative one) and FLT_MAX is above every coordinate.
FLT_MAX == 1000
FLT_MIN == 1

(***************************************************************************)
(* Bit arithmetic                                                          *)
(***************************************************************************)
RECURSIVE BitXor(_, _)
BitXor(a, b) ==
    IF a = 0 THEN b
    ELSE IF b = 0 THEN a
    ELSE (((a % 2) + (b % 2)) % 2) + 2 * BitXor(a \div 2, b \div 2)

RECURSIVE BitLength(_)
BitLength(x) == IF x = 0 THEN 0 ELSE 1 + BitLength(x \div 2)

\* software_clz / clz on a 32-bit word: number of leading zero bits, 32 for 0.
CLZ(x) == 32 - BitLength(x)

Min2(a, b) == IF a < b THEN a ELSE b
Max2(a, b) == IF a > b THEN a ELSE b

(***************************************************************************)
(* BVH.h: findSplit                                                        *)
(***************************************************************************)
RECURSIVE FindSplitLoop(_, _, _, _, _, _)
FindSplitLoop(list, firstCode, commonPrefix, last, split, step) ==
    LET step2 == (step + 1) \div 2
        newSplit == split + step2
        split2 == IF newSplit < last /\ CLZ(BitXor(firstCode, list[newSplit].x)) > commonPrefix
                  THEN newSplit ELSE split
    IN  IF step2 > 1
        THEN FindSplitLoop(list, firstCode, commonPrefix, last, split2, step2)
        ELSE split2

\* Mutation of findSplit: a run of identical codes is split in the middle.
findSplit_MidSplit(list, first, last) ==
    LET firstCode == list[first].x
        lastCode == list[last].x
    IN  IF firstCode = lastCode
        THEN (first + last) \div 2
        ELSE FindSplitLoop(list, firstCode, CLZ(BitXor(firstCode, lastCode)),
                           last, first, last - first)

findSplit(list, first, last) ==
    LET firstCode == list[first].x
        lastCode == list[last].x
    IN  IF firstCode = lastCode
        THEN first
        ELSE FindSplitLoop(list, firstCode, CLZ(BitXor(firstCode, lastCode)),
                           last, first, last - first)

(***************************************************************************)
(* BVH.h: determineRange                                                   *)
(***************************************************************************)
\* The walk to the right over a run of equal codes (lines 221-228).
RECURSIVE EqualRunEnd(_, _, _)
EqualRunEnd(list, index, lso) ==
    IF index > 0 /\ index < lso
    THEN LET next == index + 1
         IN  IF next >= lso \/ list[next].x # list[next + 1].x
             THEN next
             ELSE EqualRunEnd(list, next, lso)
    ELSE index

\* Exponential growth of l_max (lines 255-262).
RECURSIVE GrowLMax(_, _, _, _, _, _)
GrowLMax(list, index, dir, dMin, lso, lMax) ==
    LET testindex == index + lMax * dir
    IN  IF testindex <= lso /\ testindex >= 0
           /\ CLZ(BitXor(list[index].x, list[testindex].x)) > dMin
        THEN GrowLMax(list, index, dir, dMin, lso, lMax * 2)
        ELSE lMax

\* Binary search for the far end of the range (lines 264-280).
RECURSIVE SearchL(_, _, _, _, _, _, _, _)
SearchL(list, index, dir, dMin, lso, lMax, div, l) ==
    IF lMax \div div >= 1
    THEN LET t == lMax \div div
             newTest == index + (l + t) * dir
             l2 == IF newTest <= lso /\ newTest >= 0
                      /\ CLZ(BitXor(list[index].x, list[newTest].x)) > dMin
                   THEN l + t ELSE l
         IN  SearchL(list, index, dir, dMin, lso, lMax, div * 2, l2)
    ELSE l

determineRange(list, index, size) ==
    LET lso == size - 1
    IN  IF index = 0
        THEN [x |-> 0, y |-> lso]
        ELSE LET minone == list[index - 1].x
                 precis == list[index].x
                 pluone == list[index + 1].x
             IN  IF minone = precis /\ pluone = precis
                 THEN [x |-> index, y |-> EqualRunEnd(list, index, lso)]
                 ELSE LET lrx == CLZ(BitXor(precis, minone))
                          lry == CLZ(BitXor(precis, pluone))
                          dir == IF lrx > lry THEN -1 ELSE 1
                          dMin == IF lrx > lry THEN lry ELSE lrx
                          lMax == GrowLMax(list, index, dir, dMin, lso, 2)
                          l == SearchL(list, index, dir, dMin, lso, lMax, 2, 0)
                      IN  [x |-> Min2(index, index + l * dir),
                           y |-> Max2(index, index + l * dir)]

(***************************************************************************)
(* BVH.h: constructNode - the two children chosen for internal index idx   *)
(***************************************************************************)
\* Mutation of constructNode: an internal child B is taken at the split
\* itself instead of one past it.
NodeChildren_BAtSplit(list, n, idx) ==
    LET range == determineRange(list, idx, n)
        split == findSplit(list, range.x, range.y)
        first == Min2(range.x, range.y)
        last == Max2(range.x, range.y)
        aIsLeaf == (first = split)
        bIsLeaf == (last = split + 1)
    IN  [a |-> IF aIsLeaf THEN list[split].y ELSE split + n,
         b |-> IF bIsLeaf THEN list[split + 1].y ELSE split + n]

NodeChildren(list, n, idx) ==
    LET range == determineRange(list, idx, n)
        split == findSplit(list, range.x, range.y)
        first == Min2(range.x, range.y)
        last == Max2(range.x, range.y)
        aIsLeaf == (first = split)
        bIsLeaf == (last = split + 1)
    IN  [a |-> IF aIsLeaf THEN list[split].y ELSE split + n,
         b |-> IF bIsLeaf THEN list[split + 1].y ELSE split + 1 + n]

(***************************************************************************)
(* Parts of the state that a specification does not exercise               *)
(***************************************************************************)
SortIdle ==
    /\ sortItems = 0
    /\ sortInput = <<>>
    /\ sortData = <<>>
    /\ sortLength = 0
    /\ sortInc = 0
    /\ sortPc = "idle"
    /\ sortKid = "none"
    /\ sortResult = "none"

ScanIdle ==
    /\ scanSize = 0
    /\ scanInput = <<>>
    /\ scanOutput = <<>>
    /\ scanOffset = 0
    /\ scanPc = "idle"
    /\ scanResult = "none"
    /\ scanDevice = [wg |-> 0, localMem |-> 0]
    /\ scanLaunches = 0

TravIdle ==
    /\ travScene = <<>>
    /\ travRay = <<>>
    /\ travCurrent = 0
    /\ travStack = <<>>
    /\ travBest = <<>>
    /\ travPc = "idle"
    /\ travResult = <<>>
    /\ travMaxDepth = 0

GridBuildIdle ==
    /\ counters = <<>>
    /\ prefixSumOutput = <<>>
    /\ pairsCount = 0
    /\ pairsArray = <<>>
    /\ cellRangesArray = <<>>
    /\ gridPc = "idle"
    /\ gridItems = {}
    /\ gridResult = "none"

TlgIdle ==
    /\ tlgRay = <<>>
    /\ topLevelCells = <<>>
    /\ leavesArray = <<>>
    /\ tlgIdx = <<>>
    /\ tlgNext = <<>>
    /\ tlgPc = "idle"
    /\ tlgResult = <<>>
    /\ tlgLeaf = 0 - 1

RefIdle ==
    /\ refScene = <<>>
    /\ triangleIndex = 0
    /\ currentModelIndex = -1
    /\ currentSubmeshIndex = -1
    /\ accumulatedTriangles = 0
    /\ refPc = "idle"
    /\ refResult = <<>>

ResizeIdle ==
    /\ resizeArg = -1
    /\ resizePrev = <<>>

MainIdle ==
    /\ mainConfig = <<>>
    /\ mainPc = "idle"
    /\ mainStep = 0
    /\ mainExit = 0
    /\ mainFailedStep = 0

LaunchIdle ==
    /\ launchProgram = <<>>
    /\ launchIdx = 0
    /\ launchPc = "idle"
    /\ launchEvt = 0
    /\ launchStatus = <<>>
    /\ launchResult = "none"

LeafIdle ==
    /\ leafPairsCount = 0
    /\ leafPairsArray = <<>>

LifeIdle ==
    /\ memReleases = <<>>
    /\ bufferState = "none"

HostIdle == RefIdle /\ ResizeIdle /\ MainIdle /\ LaunchIdle /\ LeafIdle /\ LifeIdle

FramesIdle ==
    /\ clBuffer = <<>>
    /\ frameNo = 0
    /\ framePc = "idle"
    /\ frameRead = <<>>

GridIdle ==
    /\ gridScene = <<>>
    /\ gridData = <<>>
    /\ gridDevice = <<>>
    /\ GridBuildIdle
    /\ TlgIdle
    /\ FramesIdle
    /\ HostIdle

BBoxIdle ==
    /\ nodeVisitCounters = <<>>
    /\ bbThread = <<>>
    /\ bbMerges = <<>>

BvhIdle ==
    /\ numLeaves = 0
    /\ mcToLeaves = <<>>
    /\ nodes = <<>>
    /\ boundingBox = <<>>
    /\ constructed = {}
    /\ parentWrites = <<>>
    /\ BBoxIdle
    /\ TravIdle

(***************************************************************************)
(* Radix tree build: one work item of the buildRadixTree kernel per        *)
(* internal index idx in [0, N-1), in any order.                           *)
(***************************************************************************)
SortedKeyArrays(n) ==
    {f \in [0..(n - 1) -> 0..MaxKey] : \A i \in 0..(n - 2) : f[i] <= f[i + 1]}

\* Leaf order carried by the values of the sort: the identity or a rotation.
LeafOrders(n) == {[i \in 0..(n - 1) |-> (i + k) % n] : k \in 0..1}

UnitBox == [lo |-> <<0, 0, 0>>, hi |-> <<2, 2, 2>>]

\* State of the node buffer after calculateMortonCodes: leaves written,
\* internal nodes untouched, parents of all nodes not yet stored.
LeafNode == [parent |-> Unwritten, childA |-> Unwritten, childB |-> Unwritten,
             type |-> LEAF_NODE]
RawNode == [parent |-> Unwritten, childA |-> Unwritten, childB |-> Unwritten,
            type |-> Unwritten]

NodesAfterMorton(n) == [i \in 0..(2 * n - 2) |-> IF i < n THEN LeafNode ELSE RawNode]

EmptyBox == [lo |-> <<FLT_MAX, FLT_MAX, FLT_MAX>>, hi |-> <<FLT_MIN, FLT_MIN, FLT_MIN>>]

\* constructNode: the node array and box array after the work item for idx.
ConstructedNodes(nd, list, n, idx) ==
    LET ch == NodeChildren(list, n, idx)
        internalNodeIndex == idx + n
        own == [nd[internalNodeIndex] EXCEPT
                    !.type = INNER_NODE,
                    !.parent = IF internalNodeIndex = n THEN UINT_MAX ELSE @,
                    !.childA = ch.a,
                    !.childB = ch.b]
        nd1 == [nd EXCEPT ![internalNodeIndex] = own]
        nd2 == [nd1 EXCEPT ![ch.a].parent = internalNodeIndex]
    IN  [nd2 EXCEPT ![ch.b].parent = internalNodeIndex]

InitTree ==
    /\ phase = "radix"
    /\ GridIdle
    /\ numLeaves \in 2..MaxLeaves
    /\ \E keys \in SortedKeyArrays(numLeaves), ord \in LeafOrders(numLeaves) :
          mcToLeaves = [i \in 0..(numLeaves - 1) |-> [x |-> keys[i], y |-> ord[i]]]
    /\ nodes = NodesAfterMorton(numLeaves)
    /\ boundingBox = [i \in 0..(2 * numLeaves - 2) |-> UnitBox]
    /\ constructed = {}
    /\ parentWrites = [i \in 0..(2 * numLeaves - 2) |-> 0]
    /\ BBoxIdle
    /\ TravIdle
    /\ SortIdle
    /\ ScanIdle

ConstructNode(idx) ==
    /\ phase = "radix"
    /\ idx \notin constructed
    /\ LET ch == NodeChildren(mcToLeaves, numLeaves, idx)
           internalNodeIndex == idx + numLeaves
           w0 == IF internalNodeIndex = numLeaves
                 THEN [parentWrites EXCEPT ![internalNodeIndex] = @ + 1]
                 ELSE parentWrites
           w1 == [w0 EXCEPT ![ch.a] = @ + 1]
       IN  /\ nodes' = ConstructedNodes(nodes, mcToLeaves, numLeaves, idx)
           /\ boundingBox' = [boundingBox EXCEPT ![internalNodeIndex] = EmptyBox]
           /\ parentWrites' = [w1 EXCEPT ![ch.b] = @ + 1]
    /\ constructed' = constructed \cup {idx}
    /\ UNCHANGED <<notBvhVars, numLeaves, mcToLeaves>>

NextTree == \E idx \in 0..(numLeaves - 2) : ConstructNode(idx)

SpecTree == InitTree /\ [][NextTree]_vars

(***************************************************************************)
(* Walking parent links                                                    *)
(***************************************************************************)
\* Node reached from n after k parent steps (UINT_MAX once past the root,
\* Unwritten if a link on the way was never stored).
RECURSIVE Ancestor(_, _, _)
Ancestor(nd, n, k) ==
    IF k = 0 \/ n = UINT_MAX \/ n = Unwritten THEN n
    ELSE Ancestor(nd, nd[n].parent, k - 1)

TreeComplete == phase = "radix" /\ constructed = 0..(numLeaves - 2)

\* C1: once constructNode has run for every internal index, the upward walk
\* from every leaf reaches node N, whose parent is UINT_MAX, in fewer than N
\* steps, and the nodes on the walk are pairwise different (no cycle).
C1_LeafWalkReachesRoot ==
    TreeComplete =>
        /\ nodes[numLeaves].parent = UINT_MAX
        /\ \A leaf \in 0..(numLeaves - 1) :
              \E k \in 1..(numLeaves - 1) :
                  /\ Ancestor(nodes, leaf, k) = numLeaves
                  /\ \A i, j \in 0..k :
                        i # j => Ancestor(nodes, leaf, i) # Ancestor(nodes, leaf, j)

\* Witness of C1: a finished tree over a key array with a run of three equal
\* keys next to a different key.
C1_Witness ==
    /\ TreeComplete
    /\ numLeaves >= 4
    /\ \E i \in 0..(numLeaves - 3) :
          /\ mcToLeaves[i].x = mcToLeaves[i + 1].x
          /\ mcToLeaves[i + 1].x = mcToLeaves[i + 2].x
    /\ mcToLeaves[0].x # mcToLeaves[numLeaves - 1].x

(***************************************************************************)
(* Bitonic sort.  The host loop is BitonicSort::sort; the ParallelBitonic  *)
(* kernels are not part of the host sources and are modelled from the      *)
(* design description: a radix-2^ninc kernel performs the ninc consecutive *)
(* compare-exchange passes inc, inc/2, ... of the stage whose direction    *)
(* mask is dir = 2*length.                                                 *)
(***************************************************************************)
Pow2(k) == 2 ^ k

\* Mutation of BitonicPass: the exchange stores the smaller pair in both slots.
BitonicPass_Overwrite(data, n, inc, dir) ==
    [i \in 0..(n - 1) |->
        LET low == IF (i \div inc) % 2 = 0 THEN i ELSE i - inc
            a == data[low]
            b == data[low + inc]
        IN  IF a.x > b.x THEN b ELSE a]

\* One compare-exchange pass at distance inc.
BitonicPass(data, n, inc, dir) ==
    [i \in 0..(n - 1) |->
        LET low == IF (i \div inc) % 2 = 0 THEN i ELSE i - inc
            ascending == (low \div dir) % 2 = 0
            a == data[low]
            b == data[low + inc]
            swap == IF ascending THEN a.x > b.x ELSE a.x < b.x
        IN  IF i = low THEN (IF swap THEN b ELSE a) ELSE (IF swap THEN a ELSE b)]

RECURSIVE ParallelBitonic(_, _, _, _, _)
ParallelBitonic(data, n, inc, dir, ninc) ==
    IF ninc = 0 THEN data
    ELSE ParallelBitonic(BitonicPass(data, n, inc, dir), n, inc \div 2, dir, ninc - 1)

\* Allowed "Bx" kernels (bit mask), BitonicSort.cpp line 66.
ALLOWB == 14
AllowB(bit) == (ALLOWB \div bit) % 2 = 1

\* Kernel selection of lines 125-153: kernel id and number of inc steps.
SelectKernel(inc) ==
    IF AllowB(16) /\ inc >= 8 THEN [kid |-> "B16", ninc |-> 4]
    ELSE IF AllowB(8) /\ inc >= 4 THEN [kid |-> "B8", ninc |-> 3]
    ELSE IF AllowB(4) /\ inc >= 2 THEN [kid |-> "B4", ninc |-> 2]
    ELSE [kid |-> "B2", ninc |-> 1]

\* Mutation of SortLoopCondition: the stage loop stops one stage early.
SortLoopCondition_Early(length, numItems) == 2 * length < numItems

\* Loop condition of the stage loop, line 120.
SortLoopCondition(length, numItems) == length < numItems

SortInputs(n) ==
    UNION {{[i \in 0..(n - 1) |->
                IF i < real THEN [x |-> keys[i], y |-> i]
                ELSE [x |-> UINT_MAX, y |-> UINT_MAX]] :
            keys \in [0..(real - 1) -> 0..MaxSortKey]} : real \in 0..Min2(n, MaxSortReal)}

InitSort ==
    /\ phase = "sort"
    /\ GridIdle
    /\ sortItems \in {Pow2(k) : k \in 0..MaxSortLog}
    /\ sortInput \in SortInputs(sortItems)
    /\ sortData = sortInput
    /\ sortLength = 1
    /\ sortInc = 0
    /\ sortPc = "for"
    /\ sortKid = "none"
    /\ sortResult = "none"
    /\ BvhIdle
    /\ ScanIdle

\* for (length = 1; length < num_items; length <<= 1) { inc = length; ...
SortFor ==
    /\ sortPc = "for"
    /\ IF SortLoopCondition(sortLength, sortItems)
       THEN /\ sortInc' = sortLength
            /\ sortPc' = "while"
            /\ UNCHANGED sortResult
       ELSE /\ sortPc' = "return"
            /\ sortResult' = "Success"
            /\ UNCHANGED sortInc
    /\ UNCHANGED <<notSortVars, sortItems, sortInput, sortData, sortLength, sortKid>>

\* One pass of the while (inc > 0) body: select, launch, flush, wait.
SortLaunch ==
    /\ sortPc = "while"
    /\ sortInc > 0
    /\ LET k == SelectKernel(sortInc)
       IN  /\ sortData' = ParallelBitonic(sortData, sortItems, sortInc, 2 * sortLength, k.ninc)
           /\ sortKid' = k.kid
           /\ sortInc' = sortInc \div Pow2(k.ninc)
    /\ UNCHANGED <<notSortVars, sortItems, sortInput, sortLength, sortPc, sortResult>>

\* The failing pass without its return statement: the error is recorded and
\* the while loop goes on.
SortLaunchFails_KeepsRunning(ran) ==
    /\ sortPc = "while"
    /\ sortInc > 0
    /\ LET k == SelectKernel(sortInc)
       IN  /\ sortData' = IF ran
                          THEN ParallelBitonic(sortData, sortItems, sortInc, 2 * sortLength, k.ninc)
                          ELSE sortData
           /\ sortKid' = IF ran THEN k.kid ELSE sortKid
    /\ sortResult' = "Error"
    /\ UNCHANGED <<notSortVars, sortItems, sortInput, sortLength, sortInc, sortPc>>

\* The same pass when a backend call fails: the enqueue (kernel not run) or
\* the flush or wait (kernel may have run).
SortLaunchFails(ran) ==
    /\ sortPc = "while"
    /\ sortInc > 0
    /\ LET k == SelectKernel(sortInc)
       IN  /\ sortData' = IF ran
                          THEN ParallelBitonic(sortData, sortItems, sortInc, 2 * sortLength, k.ninc)
                          ELSE sortData
           /\ sortKid' = IF ran THEN k.kid ELSE sortKid
    /\ sortPc' = "return"
    /\ sortResult' = "Error"
    /\ UNCHANGED <<notSortVars, sortItems, sortInput, sortLength, sortInc>>

\* The throw expression of SET_KERNEL_ARGS, "throw new CLInterfaceException(err)",
\* throws a pointer; the handler of sort, "catch(CLInterfaceException e)",
\* names the class.
ThrownBySetKernelArgs == "CLInterfaceException*"
SortHandler == "CLInterfaceException"

\* A handler is entered when it names the type of the thrown object: a
\* handler for a class type is not a match for a pointer to that class.
Catches(handler, thrown) == handler = thrown

\* The same pass when setting a kernel argument fails: SET_KERNEL_ARGS throws
\* inside the try block of sort; no kernel is enqueued.
SortSetArgsFails ==
    /\ sortPc = "while"
    /\ sortInc > 0
    /\ IF Catches(SortHandler, ThrownBySetKernelArgs)
       THEN sortPc' = "return" /\ sortResult' = "Error"
       ELSE sortPc' = "unwound" /\ sortResult' = "Exception"
    /\ UNCHANGED <<notSortVars, sortItems, sortInput, sortData, sortLength, sortInc, sortKid>>

\* while (inc > 0) is left; length <<= 1.
SortWhileDone ==
    /\ sortPc = "while"
    /\ sortInc = 0
    /\ sortLength' = 2 * sortLength
    /\ sortPc' = "for"
    /\ UNCHANGED <<notSortVars, sortItems, sortInput, sortData, sortInc, sortKid, sortResult>>

NextSort ==
    \/ SortFor
    \/ SortLaunch
    \/ \E ran \in BOOLEAN : SortLaunchFails(ran)
    \/ SortSetArgsFails
    \/ SortWhileDone

SpecSort == InitSort /\ [][NextSort]_vars

\* Number of entries of a pair array (index set 0..n-1) with a given key / value.
CountKey(data, n, k) == Cardinality({i \in 0..(n - 1) : data[i].x = k})
CountValue(data, n, v) == Cardinality({i \in 0..(n - 1) : data[i].y = v})

\* C2: when sort has returned Success the array is in non-decreasing key order.
C2_SortedOnSuccess ==
    sortResult = "Success" =>
        \A i \in 0..(sortItems - 2) : sortData[i].x <= sortData[i + 1].x

\* Witness of C2: a successful sort of 8 entries whose input was not sorted
\* and held duplicate keys and sentinel padding.
C2_Witness ==
    /\ sortResult = "Success"
    /\ sortItems = 8
    /\ \E i \in 0..6 : sortInput[i].x > sortInput[i + 1].x
    /\ \E i, j \in 0..7 : i # j /\ sortInput[i].x = sortInput[j].x /\ sortInput[i].x # UINT_MAX
    /\ sortInput[7].x = UINT_MAX

\* C3: at every point of the sort (so also when it returns) the array holds
\* the same multiset of keys and the same multiset of values as the input.
C3_SortPermutes ==
    phase = "sort" =>
        /\ \A k \in (0..MaxSortKey) \cup {UINT_MAX} :
              CountKey(sortData, sortItems, k) = CountKey(sortInput, sortItems, k)
        /\ \A v \in (0..(sortItems - 1)) \cup {UINT_MAX} :
              CountValue(sortData, sortItems, v) = CountValue(sortInput, sortItems, v)

\* Witness of C3: a successful sort that moved entries, on an input with
\* duplicate keys and sentinels.
C3_Witness ==
    /\ sortResult = "Success"
    /\ sortItems >= 4
    /\ sortData # sortInput
    /\ \E i, j \in 0..(sortItems - 1) :
          i # j /\ sortInput[i].x = sortInput[j].x /\ sortInput[i].x # UINT_MAX
    /\ sortInput[sortItems - 1].x = UINT_MAX

(***************************************************************************)
(* Prefix sum.  The host side is PrefixSum::computePrefixSum with          *)
(* invokeGroupKernel and invokeGlobalKernel; the two kernels are not part  *)
(* of the host sources and are modelled from the design description: the   *)
(* block kernel scans each block of 2*W elements of the stride-decimated   *)
(* view (inclusive), the inter-block kernel adds the total that precedes a *)
(* block to the elements of the block.                                     *)
(***************************************************************************)
\* RTKernelUtils.h isPowerOfTwo (0 and 1 are accepted); the shifts that can
\* match a model value are those below 2^30.
isPowerOfTwo(x) == x = 0 \/ x = 1 \/ \E shift \in 1..30 : 2 ^ shift = x

\* f[e(lo)] + ... + f[e(hi)] over the decimated view e(k) = offset*(k+1) - 1
SumView(f, offset, lo, hi) ==
    LET RECURSIVE Acc(_)
        Acc(k) == IF k < lo THEN 0 ELSE f[offset * (k + 1) - 1] + Acc(k - 1)
    IN  Acc(hi)

\* group_prefixSum: inclusive scan inside every block of 2*W view elements.
GroupPrefixSum(out, in, offset, length, wg) ==
    [i \in 0..(length - 1) |->
        IF (i + 1) % offset = 0
        THEN LET k == (i + 1) \div offset - 1
                 blockStart == (k \div (2 * wg)) * (2 * wg)
             IN  SumView(in, offset, blockStart, k)
        ELSE out[i]]

\* global_prefixSum: every element that is not the last of its offset-block
\* and does not lie in the first offset-block of its group of 2*W blocks
\* receives the value at the end of the preceding offset-block.
GlobalPrefixSum(buf, offset, length, wg) ==
    [i \in 0..(length - 1) |->
        IF (i + 1) % offset # 0 /\ i % (offset * 2 * wg) >= offset
        THEN buf[i] + buf[i - ((i % offset) + 1)]
        ELSE buf[i]]

ScanInputs(n) ==
    {f \in [0..(n - 1) -> 0..MaxScanValue] : \A i \in 0..(n - 1) : i >= MaxScanReal => f[i] = 0}

\* Content of the output buffer before the call: whatever the caller left in
\* it (the grid manager fills it with 0, a reused buffer holds older sums).
StaleOutputs(n) == {[i \in 0..(n - 1) |-> fill] : fill \in {0, MaxScanValue}}

ScanDevices ==
    {[wg |-> 2 ^ k, localMem |-> m] : k \in 0..MaxWorkGroupLog, m \in {4, 64}}

InitScan ==
    /\ phase = "scan"
    /\ GridIdle
    /\ scanSize \in 1..MaxScanSize
    /\ scanInput \in ScanInputs(scanSize)
    /\ scanOutput \in StaleOutputs(scanSize)
    /\ scanOffset = 0
    /\ scanPc = "check"
    /\ scanResult = "none"
    /\ scanDevice \in ScanDevices
    /\ scanLaunches = 0
    /\ BvhIdle
    /\ SortIdle

\* Lines 96-109: the two precondition checks.
ScanPreconditionsHold(size, dev) ==
    /\ isPowerOfTwo(size)
    /\ ~(2 * dev.wg * 4 > dev.localMem)

ScanCheck ==
    /\ scanPc = "check"
    /\ IF ScanPreconditionsHold(scanSize, scanDevice)
       THEN /\ scanPc' = "for"
            /\ scanOffset' = 1
            /\ UNCHANGED scanResult
       ELSE /\ scanPc' = "return"
            /\ scanResult' = "Error"
            /\ UNCHANGED scanOffset
    /\ UNCHANGED <<notScanVars, scanSize, scanInput, scanOutput, scanDevice, scanLaunches>>

\* Loop condition of line 115.
ScanLoopCondition(offset, size) == offset < size

\* Line 115: for (offset = 1; offset < size; offset *= localDataSize)
ScanFor ==
    /\ scanPc = "for"
    /\ IF ScanLoopCondition(scanOffset, scanSize)
       THEN /\ scanPc' = "group"
            /\ UNCHANGED scanResult
       ELSE /\ scanPc' = "return"
            /\ scanResult' = "Success"
    /\ UNCHANGED <<notScanVars, scanSize, scanInput, scanOutput, scanOffset, scanDevice,
                   scanLaunches>>

\* Lines 118-122 with invokeGroupKernel.
ScanGroup ==
    /\ scanPc = "group"
    /\ IF scanSize \div scanOffset > 1
       THEN /\ scanOutput' = GroupPrefixSum(scanOutput,
                                 IF scanOffset > 1 THEN scanOutput ELSE scanInput,
                                 scanOffset, scanSize, scanDevice.wg)
            /\ scanLaunches' = scanLaunches + 1
       ELSE UNCHANGED <<scanOutput, scanLaunches>>
    /\ scanPc' = "global"
    /\ UNCHANGED <<notScanVars, scanSize, scanInput, scanOffset, scanResult, scanDevice>>

\* Lines 125-129 with invokeGlobalKernel, and the loop increment.
ScanGlobal ==
    /\ scanPc = "global"
    /\ IF scanOffset > 1
       THEN /\ scanOutput' = GlobalPrefixSum(scanOutput, scanOffset, scanSize, scanDevice.wg)
            /\ scanLaunches' = scanLaunches + 1
       ELSE UNCHANGED <<scanOutput, scanLaunches>>
    /\ scanOffset' = scanOffset * (2 * scanDevice.wg)
    /\ scanPc' = "for"
    /\ UNCHANGED <<notScanVars, scanSize, scanInput, scanResult, scanDevice>>

\* A backend call of invokeGroupKernel / invokeGlobalKernel fails.
ScanKernelFails ==
    /\ scanPc \in {"group", "global"}
    /\ scanPc = "group" => scanSize \div scanOffset > 1
    /\ scanPc = "global" => scanOffset > 1
    /\ scanPc' = "return"
    /\ scanResult' = "Error"
    /\ UNCHANGED <<notScanVars, scanSize, scanInput, scanOutput, scanOffset, scanDevice,
                   scanLaunches>>

NextScan ==
    \/ ScanCheck
    \/ ScanFor
    \/ ScanGroup
    \/ ScanGlobal
    \/ ScanKernelFails

SpecScan == InitScan /\ [][NextScan]_vars

InclusiveScan(out, in, n) ==
    /\ out[0] = in[0]
    /\ \A i \in 1..(n - 1) : out[i] - out[i - 1] = in[i]

\* C4: for every power-of-two size N >= 1, when computePrefixSum has returned
\* Success the output buffer holds the inclusive scan of the input buffer.
C4_InclusiveScanOnSuccess ==
    scanResult = "Success" => InclusiveScan(scanOutput, scanInput, scanSize)

\* The same statement for the sizes on which the loop body runs (N >= 2).
ScanCorrectFromTwo ==
    (scanResult = "Success" /\ scanSize >= 2) =>
        InclusiveScan(scanOutput, scanInput, scanSize)

\* The single-element call: Success is returned with no kernel launched and
\* the output buffer still differs from the input.
SingleElementUntouched ==
    /\ scanResult = "Success"
    /\ scanSize = 1
    /\ scanLaunches = 0
    /\ scanOutput[0] # scanInput[0]

(***************************************************************************)
(* Bounding-box propagation.  The computeBoundingBoxes kernel is not part  *)
(* of the host sources; its work item is modelled from the design          *)
(* description: one work item per leaf walks up the parent links, does an  *)
(* atomic increment of the visit counter of the node it arrives at, stops  *)
(* if it is the first visitor and otherwise calls mergeBoundingBox (BVH.h) *)
(* and continues with the parent.                                          *)
(***************************************************************************)
Min3Vec(a, b) == [k \in 1..3 |-> Min2(a[k], b[k])]
Max3Vec(a, b) == [k \in 1..3 |-> Max2(a[k], b[k])]

\* Mutation of merge3: the second box is left out of the union.
merge3_DropB(a, b, c) ==
    [lo |-> Min3Vec(a.lo, c.lo), hi |-> Max3Vec(a.hi, c.hi)]

\* AABB.h merge3
merge3(a, b, c) ==
    [lo |-> Min3Vec(Min3Vec(a.lo, b.lo), c.lo), hi |-> Max3Vec(Max3Vec(a.hi, b.hi), c.hi)]

\* BVH.h mergeBoundingBox: the box stored into nodes[currentIdx]
mergeBoundingBox(nd, box, currentIdx) ==
    merge3(box[nd[currentIdx].childA], box[nd[currentIdx].childB], box[currentIdx])

\* RTKernelUtils.h containedInRange
containedInRange(lo, hi, value) == lo <= value /\ value <= hi

\* AABB.h AABBContains
AABBContains(container, contained) ==
    \A k \in 1..3 :
        /\ containedInRange(container.lo[k], container.hi[k], contained.lo[k])
        /\ containedInRange(container.lo[k], container.hi[k], contained.hi[k])

\* The node array after the buildRadixTree kernel has finished.
RECURSIVE RadixTree(_, _, _, _)
RadixTree(nd, list, n, idx) ==
    IF idx < 0 THEN nd
    ELSE RadixTree(ConstructedNodes(nd, list, n, idx), list, n, idx - 1)

\* Triangle AABB of leaf g in a scene placed at shift: every scene has boxes
\* of different extent per leaf; the scenes differ in where they lie relative
\* to the origin (all coordinates negative, around the origin, non-negative).
LeafBox(g, shift) ==
    [lo |-> <<shift + 2 * g, shift - 2 * g, shift>>,
     hi |-> <<shift + 2 * g + 2, shift + 2, shift + 2 * g + 2>>]

SceneShifts == {0 - 2 * MaxBoxLeaves - 4, 0 - 2, 0}

BoxKeyArrays(n) ==
    {f \in [0..(n - 1) -> 0..MaxBoxKey] : \A i \in 0..(n - 2) : f[i] <= f[i + 1]}

InitBBox ==
    /\ phase = "bbox"
    /\ GridIdle
    /\ numLeaves \in 2..MaxBoxLeaves
    /\ \E keys \in BoxKeyArrays(numLeaves), ord \in LeafOrders(numLeaves) :
          mcToLeaves = [i \in 0..(numLeaves - 1) |-> [x |-> keys[i], y |-> ord[i]]]
    /\ nodes = RadixTree(NodesAfterMorton(numLeaves), mcToLeaves, numLeaves, numLeaves - 2)
    /\ \E shift \in SceneShifts :
          boundingBox = [i \in 0..(2 * numLeaves - 2) |->
                            IF i < numLeaves THEN LeafBox(i, shift) ELSE EmptyBox]
    /\ constructed = 0..(numLeaves - 2)
    /\ parentWrites = [i \in 0..(2 * numLeaves - 2) |-> 1]
    /\ nodeVisitCounters = [i \in 0..(numLeaves - 1) |-> 0]
    /\ bbThread = [g \in 0..(numLeaves - 1) |-> [pc |-> "visit", current |-> nodes[g].parent]]
    /\ bbMerges = [i \in 0..(2 * numLeaves - 2) |-> 0]
    /\ TravIdle
    /\ SortIdle
    /\ ScanIdle

\* The increment with the roles exchanged: the first visitor goes on to
\* merge and the second one stops.
BBVisit_FirstMerges(g) ==
    /\ phase = "bbox"
    /\ bbThread[g].pc = "visit"
    /\ LET current == bbThread[g].current
           old == nodeVisitCounters[current - numLeaves]
       IN  /\ nodeVisitCounters' = [nodeVisitCounters EXCEPT ![current - numLeaves] = old + 1]
           /\ bbThread' = [bbThread EXCEPT ![g].pc = IF old = 0 THEN "merge" ELSE "done"]
    /\ UNCHANGED <<notBoxVars, boundingBox, bbMerges>>

\* The atomic increment at the node the work item has arrived at.
BBVisit(g) ==
    /\ phase = "bbox"
    /\ bbThread[g].pc = "visit"
    /\ LET current == bbThread[g].current
           old == nodeVisitCounters[current - numLeaves]
       IN  /\ nodeVisitCounters' = [nodeVisitCounters EXCEPT ![current - numLeaves] = old + 1]
           /\ bbThread' = [bbThread EXCEPT ![g].pc = IF old = 0 THEN "done" ELSE "merge"]
    /\ UNCHANGED <<notBoxVars, boundingBox, bbMerges>>

\* The second visitor merges and moves on to the parent.
BBMerge(g) ==
    /\ phase = "bbox"
    /\ bbThread[g].pc = "merge"
    /\ LET current == bbThread[g].current
           next == nodes[current].parent
       IN  /\ boundingBox' = [boundingBox EXCEPT
                                 ![current] = mergeBoundingBox(nodes, boundingBox, current)]
           /\ bbMerges' = [bbMerges EXCEPT ![current] = @ + 1]
           /\ bbThread' = [bbThread EXCEPT
                              ![g] = [pc |-> IF next = UINT_MAX THEN "done" ELSE "visit",
                                      current |-> next]]
    /\ UNCHANGED <<notBoxVars, nodeVisitCounters>>

NextBBox == \E g \in 0..(numLeaves - 1) : BBVisit(g) \/ BBMerge(g)

SpecBBox == InitBBox /\ [][NextBBox]_vars

BBoxComplete ==
    phase = "bbox" /\ \A g \in 0..(numLeaves - 1) : bbThread[g].pc = "done"

\* C5: when the bounding-box kernel has finished, whatever the interleaving
\* of its work items was, the box of the parent of every non-root node
\* contains the box of the node.
C5_ParentBoxContainsChild ==
    BBoxComplete =>
        \A n \in 0..(2 * numLeaves - 2) :
            nodes[n].parent # UINT_MAX =>
                AABBContains(boundingBox[nodes[n].parent], boundingBox[n])

\* Witness of C5: a finished propagation over a tree of at least three leaves
\* in a scene with negative coordinates, in which the root was merged.
C5_Witness ==
    /\ BBoxComplete
    /\ numLeaves >= 3
    /\ bbMerges[numLeaves] = 1
    /\ boundingBox[0].hi[1] < 0
    /\ \E n \in (numLeaves + 1)..(2 * numLeaves - 2) : bbMerges[n] = 1

(***************************************************************************)
(* Rays, triangles and boxes.  Coordinates are integers; a ray parameter   *)
(* is kept as an exact fraction [num, den] with den > 0.  Ray directions   *)
(* have components in {-1, 0, 1}, so that 1.0f / direction is 1, -1 or     *)
(* +infinity and every slab distance is an integer or an IEEE special.     *)
(***************************************************************************)
VSub(a, b) == <<a[1] - b[1], a[2] - b[2], a[3] - b[3]>>
cross(a, b) ==
    <<a[2] * b[3] - a[3] * b[2], a[3] * b[1] - a[1] * b[3], a[1] * b[2] - a[2] * b[1]>>
dot(a, b) == a[1] * b[1] + a[2] * b[2] + a[3] * b[3]

NoContact == [num |-> 0, den |-> 1]
FracLess(a, b) == a.num * b.den < b.num * a.den
FracEq(a, b) == a.num * b.den = b.num * a.den

\* Triangle.h triangleIntersect: the w component of the result.  The tests
\* on u = uNum / det and v = vNum / det are made on the numerators; with
\* integer coordinates fabs(det) >= FLT_EPSILON is det # 0.  When a test
\* fails the code returns t * 0 (or NaN for det = 0), which the callers
\* treat alike: it is not > 0.
triangleIntersect(vert0, vert1, vert2, orig, dir) ==
    LET edge1 == VSub(vert1, vert0)
        edge2 == VSub(vert2, vert0)
        pvec == cross(dir, edge2)
        det == dot(edge1, pvec)
        tvec == VSub(orig, vert0)
        sgn == IF det < 0 THEN 0 - 1 ELSE 1
        uNum == sgn * dot(tvec, pvec)
        qvec == cross(tvec, edge1)
        vNum == sgn * dot(dir, qvec)
        flag == /\ det # 0
                /\ uNum < sgn * det
                /\ uNum >= 0
                /\ uNum + vNum <= sgn * det
                /\ vNum >= 0
    IN  IF flag THEN [num |-> sgn * dot(edge2, qvec), den |-> sgn * det] ELSE NoContact

\* AABB.h calculateTriangleAABB.  The inflation of a flat box by FLT_EPSILON
\* is below the resolution of the model's coordinates (x + FLT_EPSILON
\* rounds to x for a float x of magnitude 2 or more), so a flat box stays flat.
calculateTriangleAABB(v1, v2, v3) ==
    [lo |-> Min3Vec(Min3Vec(v1, v2), v3), hi |-> Max3Vec(Max3Vec(v1, v2), v3)]

\* IEEE values outside the finite range of the model.
INFINITY == FLT_MAX + 1
NAN == 0 - (FLT_MAX + 2)

\* 1.0f / d for a direction component d (INV_DIR_X, INV_DIR_Y, INV_DIR_Z)
InvDir(d) == IF d = 0 THEN INFINITY ELSE d

\* x * inv for a finite x and inv = 1, -1 or +infinity
FMul(x, inv) ==
    IF inv # INFINITY THEN x * inv
    ELSE IF x > 0 THEN INFINITY ELSE IF x < 0 THEN 0 - INFINITY ELSE NAN

\* float comparison and the min / max macros of CLPortability.h
FGreater(a, b) == a # NAN /\ b # NAN /\ a > b
FMax(a, b) == IF FGreater(a, b) THEN a ELSE b
FMin(a, b) == IF FGreater(b, a) THEN a ELSE b

\* AABB.h AABBIntersect: tmin * flag
AABBIntersect(aabb, ro, rd) ==
    LET near(k) == IF FGreater(0, InvDir(rd[k])) THEN aabb.hi[k] ELSE aabb.lo[k]
        far(k) == IF FGreater(0, InvDir(rd[k])) THEN aabb.lo[k] ELSE aabb.hi[k]
        txmin == FMul(near(1) - ro[1], InvDir(rd[1]))
        txmax == FMul(far(1) - ro[1], InvDir(rd[1]))
        tymin == FMul(near(2) - ro[2], InvDir(rd[2]))
        tymax == FMul(far(2) - ro[2], InvDir(rd[2]))
        flagXY == ~(FGreater(txmin, tymax) \/ FGreater(tymin, txmax))
        tmin1 == FMax(txmin, tymin)
        tmax1 == FMin(txmax, tymax)
        tzmin == FMul(near(3) - ro[3], InvDir(rd[3]))
        tzmax == FMul(far(3) - ro[3], InvDir(rd[3]))
        flag == flagXY /\ ~(FGreater(tmin1, tzmax) \/ FGreater(tzmin, tmax1))
        tmin == FMax(tmin1, tzmin)
    IN  IF flag THEN tmin
        ELSE IF tmin \in {INFINITY, 0 - INFINITY, NAN} THEN NAN ELSE 0

\* AABB.h isPointInside
isPointInside(aabb, point) ==
    \A k \in 1..3 : containedInRange(aabb.lo[k], aabb.hi[k], point[k])

(***************************************************************************)
(* BVH traversal: bvh_generate_contact of BVH.h, one action per iteration  *)
(* of its do-while loop and one for the code after the loop.               *)
(***************************************************************************)
\* Size of the traversal stack.
StackSize == 32

\* Scenes: triangle g of a scene of the given kind.
Triangle(g, kind) ==
    LET stacked == <<<<0, 0, 2 * g + 2>>, <<4, 0, 2 * g + 2>>, <<0, 4, 2 * g + 2>>>>
        tilted == <<<<0, 0, 2 * g>>, <<4, 0, 2 * g>>, <<0, 4, 2 * g + 4>>>>
    IN  CASE kind = "stack" -> stacked
          [] kind = "row" -> <<<<4 * g, 0, 4>>, <<4 * g + 4, 0, 4>>, <<4 * g, 4, 4>>>>
          [] kind = "tilted" -> tilted
          [] OTHER -> IF g % 2 = 0 THEN stacked ELSE tilted

SceneKinds == {"stack", "row", "tilted", "mixed"}

RayOrigins == {<<1, 1, 0 - 1>>, <<1, 1, 3>>, <<0 - 1, 1, 4>>, <<5, 1, 9>>}
RayDirections == {d \in {0 - 1, 0, 1} \X {0 - 1, 0, 1} \X {0 - 1, 0, 1} : d # <<0, 0, 0>>}

\* Mutation of TravKeyArrays: keys one bit wider than 0..MaxTravKey.
TravKeyArrays_OneBitWider(n) ==
    {f \in [0..(n - 1) -> 0..(2 ^ (BitLength(MaxTravKey) + 1) - 1)] :
        \A i \in 0..(n - 2) : f[i] <= f[i + 1]}

TravKeyArrays(n) ==
    {f \in [0..(n - 1) -> 0..MaxTravKey] : \A i \in 0..(n - 2) : f[i] <= f[i + 1]}

\* The boxes after the bounding-box kernel: a leaf has its triangle's box, an
\* internal node the merge3 of its children's boxes and of its initial box.
RECURSIVE SubtreeBox(_, _, _, _)
SubtreeBox(nd, scene, n, i) ==
    IF i < n THEN calculateTriangleAABB(scene[i][1], scene[i][2], scene[i][3])
    ELSE merge3(SubtreeBox(nd, scene, n, nd[i].childA),
                SubtreeBox(nd, scene, n, nd[i].childB), EmptyBox)

InitTrav ==
    /\ phase = "traverse"
    /\ GridIdle
    /\ numLeaves \in 2..MaxTravLeaves
    /\ \E keys \in TravKeyArrays(numLeaves), ord \in LeafOrders(numLeaves) :
          mcToLeaves = [i \in 0..(numLeaves - 1) |-> [x |-> keys[i], y |-> ord[i]]]
    /\ nodes = RadixTree(NodesAfterMorton(numLeaves), mcToLeaves, numLeaves, numLeaves - 2)
    /\ \E kind \in SceneKinds : travScene = [g \in 0..(numLeaves - 1) |-> Triangle(g, kind)]
    /\ boundingBox = [i \in 0..(2 * numLeaves - 2) |->
                         SubtreeBox(nodes, travScene, numLeaves, i)]
    /\ constructed = 0..(numLeaves - 2)
    /\ parentWrites = [i \in 0..(2 * numLeaves - 2) |-> 1]
    /\ BBoxIdle
    /\ travRay \in [origin : RayOrigins, direction : RayDirections]
    /\ travCurrent = numLeaves
    /\ travStack = <<UINT_MAX>>
    /\ travBest = [num |-> FLT_MAX, den |-> 1]
    /\ travPc = "loop"
    /\ travResult = NoContact
    /\ travMaxDepth = 1
    /\ SortIdle
    /\ ScanIdle

\* Lines 368-371: tA > 0 || isPointInside(child_A_box, ray.origin)
ChildValid(box, ray) ==
    \/ FGreater(AABBIntersect(box, ray.origin, ray.direction), 0)
    \/ isPointInside(box, ray.origin)

\* stack[--stackPointer]
TravPop ==
    /\ travCurrent' = travStack[Len(travStack)]
    /\ travStack' = SubSeq(travStack, 1, Len(travStack) - 1)
    /\ UNCHANGED <<travPc, travMaxDepth>>

\* Lines 362-383: the iteration at an internal node.
TravInner ==
    /\ travPc = "loop"
    /\ travCurrent # UINT_MAX
    /\ nodes[travCurrent].type = INNER_NODE
    /\ LET child_A_idx == nodes[travCurrent].childA
           child_B_idx == nodes[travCurrent].childB
           aValid == ChildValid(boundingBox[child_A_idx], travRay)
           bValid == ChildValid(boundingBox[child_B_idx], travRay)
       IN  IF aValid /\ bValid
           THEN IF Len(travStack) < StackSize
                THEN /\ travCurrent' = child_A_idx
                     /\ travStack' = Append(travStack, child_B_idx)
                     /\ travMaxDepth' = Max2(travMaxDepth, Len(travStack) + 1)
                     /\ UNCHANGED travPc
                ELSE \* store past the end of stack[32]: undefined behaviour
                     /\ travPc' = "undefined"
                     /\ UNCHANGED <<travCurrent, travStack, travMaxDepth>>
           ELSE IF aValid
                THEN /\ travCurrent' = child_A_idx
                     /\ UNCHANGED <<travStack, travPc, travMaxDepth>>
                ELSE IF bValid
                     THEN /\ travCurrent' = child_B_idx
                          /\ UNCHANGED <<travStack, travPc, travMaxDepth>>
                     ELSE TravPop
    /\ UNCHANGED <<notTravVars, travBest, travResult>>

\* Lines 384-399: the iteration at a leaf.
TravLeaf ==
    /\ travPc = "loop"
    /\ travCurrent # UINT_MAX
    /\ nodes[travCurrent].type = LEAF_NODE
    /\ LET tri == travScene[travCurrent]
           contactData == triangleIntersect(tri[1], tri[2], tri[3],
                                            travRay.origin, travRay.direction)
       IN  travBest' = IF contactData.num > 0 /\ FracLess(contactData, travBest)
                       THEN contactData ELSE travBest
    /\ TravPop
    /\ UNCHANGED <<notTravVars, travResult>>

\* Lines 401-407: the loop has ended; FLT_MAX becomes "no contact".
TravReturn ==
    /\ travPc = "loop"
    /\ travCurrent = UINT_MAX
    /\ travResult' = IF FracEq(travBest, [num |-> FLT_MAX, den |-> 1])
                     THEN NoContact ELSE travBest
    /\ travPc' = "done"
    /\ UNCHANGED <<notTravVars, travCurrent, travStack, travBest, travMaxDepth>>

NextTrav ==
    \/ TravInner
    \/ TravLeaf
    \/ TravReturn

SpecTrav == InitTrav /\ [][NextTrav]_vars

\* The positive intersection distances of the ray with the triangles of the scene.
Hits(scene, ray) ==
    {h \in {triangleIntersect(scene[g][1], scene[g][2], scene[g][3],
                              ray.origin, ray.direction) : g \in DOMAIN scene} : h.num > 0}

\* C6: the distance returned by bvh_generate_contact is the smallest positive
\* ray/triangle intersection distance over all triangles of the scene, and it
\* is 0 exactly when the ray hits no triangle.
C6_ClosestHitAsBruteForce ==
    travPc = "done" =>
        LET hits == Hits(travScene, travRay)
        IN  /\ (travResult.num = 0) <=> (hits = {})
            /\ hits # {} =>
                  /\ \E h \in hits : FracEq(h, travResult)
                  /\ \A h \in hits : ~FracLess(h, travResult)

\* The same statement for the rays none of whose direction components is 0
\* (no slab distance of such a ray is infinite or NaN).
ObliqueRayClosestHit ==
    (\A k \in 1..3 : travRay.direction[k] # 0) => C6_ClosestHitAsBruteForce

\* A finished traversal that reports no contact for a ray that hits a
\* triangle: the ray runs inside the plane of a face of a box on the way to
\* the triangle (direction component 0, origin coordinate equal to the face).
GrazingRayMissed ==
    /\ travPc = "done"
    /\ travResult.num = 0
    /\ Hits(travScene, travRay) # {}
    /\ \E k \in 1..3 :
          /\ travRay.direction[k] = 0
          /\ \E i \in 0..(2 * numLeaves - 2) : boundingBox[i].lo[k] = travRay.origin[k]

(***************************************************************************)
(* Two-level grid.  Grid geometry is kept in integers: the model's scenes  *)
(* are those whose grid steps and leaf steps are whole numbers, so every   *)
(* float operation of the code is exact on them.  The kernels that only    *)
(* wrap a TwoLevelGrid.h function (prepareData, writePairs) are modelled   *)
(* by that function, one action per work item; the cell-range kernel is    *)
(* not part of the host sources and is modelled from the design            *)
(* description.                                                            *)
(***************************************************************************)
\* RTKernelUtils.h largestPowerOfTwo, for x > 0
largestPowerOfTwo(x) == 2 ^ (BitLength(x) - 1)

\* RTKernelUtils.h closestMultipleTo
closestMultipleTo(number, multiple) ==
    IF number % multiple = 0 THEN number ELSE ((number \div multiple) + 1) * multiple

\* TwoLevelGrid.h getCellIndex and getCellRefFromIndex; i and r are <<x, y, z>>
getCellIndex(i, r) == i[3] * r[1] * r[2] + i[2] * r[1] + i[1]
getCellRefFromIndex(idx, r) ==
    LET a == r[1] * r[2]
        z == idx \div a
        b == idx - a * z
    IN  <<b % r[1], b \div r[1], z>>

\* AABB.h boxVolume and AABBOverlaps
boxVolume(b) == (b.hi[1] - b.lo[1]) * (b.hi[2] - b.lo[2]) * (b.hi[3] - b.lo[3])
AABBOverlaps(a, b) ==
    ~\E k \in 1..3 : Min2(a.hi[k], b.hi[k]) < Max2(a.lo[k], b.lo[k])

\* (unsigned)(extent * pow(load / volume, oneThird)): the largest r with
\* r^3 * volume <= extent^3 * load.
FloorCubeRoot(extent, volume, load) ==
    LET RECURSIVE Up(_)
        Up(r) == IF (r + 1) ^ 3 * volume <= extent ^ 3 * load THEN Up(r + 1) ELSE r
    IN  Up(0)

\* extent * pow(load / volume, oneThird) is a whole number r > 0: the float
\* product may round to either side of r, so its truncation is not determined.
CubeRootIsWhole(extent, volume, load) ==
    LET r == FloorCubeRoot(extent, volume, load)
    IN  r > 0 /\ r ^ 3 * volume = extent ^ 3 * load

\* TwoLevelGridManager::getResolution
getResolution(bounds, prims, topLevelDensity) ==
    [k \in 1..3 |-> FloorCubeRoot(bounds.hi[k] - bounds.lo[k], boxVolume(bounds),
                                  topLevelDensity * prims)]

\* TwoLevelGridManager::calculateGridData
calculateGridData(bounds, prims, topLevelDensity, leafDensity) ==
    LET resolution == getResolution(bounds, prims, topLevelDensity)
    IN  [res |-> resolution,
         step |-> [k \in 1..3 |-> (bounds.hi[k] - bounds.lo[k]) \div resolution[k]],
         leafDensity |-> leafDensity,
         box |-> bounds]

\* The grids of the model: no resolution is 0 (the step would be infinite),
\* every step is a whole number and the resolution does not hang on rounding.
GridRepresentable(bounds, prims, topLevelDensity) ==
    /\ boxVolume(bounds) > 0
    /\ \A k \in 1..3 :
          LET r == getResolution(bounds, prims, topLevelDensity)[k]
          IN  /\ r >= 1
              /\ (bounds.hi[k] - bounds.lo[k]) % r = 0
              /\ ~CubeRootIsWhole(bounds.hi[k] - bounds.lo[k], boxVolume(bounds),
                                  topLevelDensity * prims)

\* TwoLevelGrid.h countOverlappingCells, mutated: the z extent is left out.
countOverlappingCells_FlatZ(v0, v1, v2, grid) ==
    LET lo == Min3Vec(v0, Min3Vec(v1, v2))
        hi == Max3Vec(v0, Max3Vec(v1, v2))
        startCells == [k \in 1..3 |->
            Min2((lo[k] - grid.box.lo[k]) \div grid.step[k], grid.res[k] - 1)]
        endCells == [k \in 1..3 |->
            Min2((hi[k] - grid.box.lo[k]) \div grid.step[k], grid.res[k] - 1)]
        cells == [k \in 1..3 |-> (endCells[k] - startCells[k]) + 1]
    IN  cells[1] * cells[2]

\* TwoLevelGrid.h countOverlappingCells
countOverlappingCells(v0, v1, v2, grid) ==
    LET lo == Min3Vec(v0, Min3Vec(v1, v2))
        hi == Max3Vec(v0, Max3Vec(v1, v2))
        startCells == [k \in 1..3 |->
            Min2((lo[k] - grid.box.lo[k]) \div grid.step[k], grid.res[k] - 1)]
        endCells == [k \in 1..3 |->
            Min2((hi[k] - grid.box.lo[k]) \div grid.step[k], grid.res[k] - 1)]
        cells == [k \in 1..3 |-> (endCells[k] - startCells[k]) + 1]
    IN  cells[1] * cells[2] * cells[3]

\* TwoLevelGrid.h writeOverlappingPairs, mutated: the x loop stops after its
\* first cell.
writeOverlappingPairs_FirstX(v0, v1, v2, grid, triangleIdx) ==
    LET lo == Min3Vec(v0, Min3Vec(v1, v2))
        hi == Max3Vec(v0, Max3Vec(v1, v2))
        cell == [k \in 1..3 |->
            Min2((lo[k] - grid.box.lo[k]) \div grid.step[k], grid.res[k] - 1)]
        cellExtents == [k \in 1..3 |->
            Min2((hi[k] - grid.box.lo[k]) \div grid.step[k], grid.res[k] - 1)]
        ny == cellExtents[2] - cell[2] + 1
        nz == cellExtents[3] - cell[3] + 1
    IN  [cellCounter \in 0..(ny * nz - 1) |->
            [x |-> getCellIndex(<<cell[1], cell[2] + (cellCounter % ny),
                                  cell[3] + (cellCounter \div ny)>>, grid.res),
             y |-> triangleIdx]]

\* TwoLevelGrid.h writeOverlappingPairs: the pairs in the order the loops
\* store them, indexed by cellCounter.
writeOverlappingPairs(v0, v1, v2, grid, triangleIdx) ==
    LET lo == Min3Vec(v0, Min3Vec(v1, v2))
        hi == Max3Vec(v0, Max3Vec(v1, v2))
        cell == [k \in 1..3 |->
            Min2((lo[k] - grid.box.lo[k]) \div grid.step[k], grid.res[k] - 1)]
        cellExtents == [k \in 1..3 |->
            Min2((hi[k] - grid.box.lo[k]) \div grid.step[k], grid.res[k] - 1)]
        nx == cellExtents[1] - cell[1] + 1
        ny == cellExtents[2] - cell[2] + 1
        nz == cellExtents[3] - cell[3] + 1
    IN  [cellCounter \in 0..(nx * ny * nz - 1) |->
            [x |-> getCellIndex(<<cell[1] + (cellCounter % nx),
                                  cell[2] + ((cellCounter \div nx) % ny),
                                  cell[3] + (cellCounter \div (nx * ny))>>, grid.res),
             y |-> triangleIdx]]

\* The cell-range kernel, one work group, mutated: the end of a run is stored
\* as the index of its last pair.
extractCellRanges_ClosedEnd(prs, count, ranges, group, wavefront) ==
    [c \in DOMAIN ranges |->
        LET items == {i \in (group * wavefront)..(group * wavefront + wavefront - 1) :
                         i < count /\ prs[i].x = c}
            begins == {i \in items : i = 0 \/ prs[i - 1].x # c}
            ends == {i \in items : i = count - 1 \/ prs[i + 1].x # c}
        IN  [x |-> IF begins # {} THEN CHOOSE i \in begins : TRUE ELSE ranges[c].x,
             y |-> IF ends # {} THEN CHOOSE i \in ends : TRUE ELSE ranges[c].y]]

\* The cell-range kernel, one work group: the work item of pair i < count
\* stores i as the begin of its key's range if the key differs from the one
\* before it, and i + 1 as the end if the key differs from the one after it.
extractCellRanges(prs, count, ranges, group, wavefront) ==
    [c \in DOMAIN ranges |->
        LET items == {i \in (group * wavefront)..(group * wavefront + wavefront - 1) :
                         i < count /\ prs[i].x = c}
            begins == {i \in items : i = 0 \/ prs[i - 1].x # c}
            ends == {i \in items : i = count - 1 \/ prs[i + 1].x # c}
        IN  [x |-> IF begins # {} THEN CHOOSE i \in begins : TRUE ELSE ranges[c].x,
             y |-> IF ends # {} THEN (CHOOSE i \in ends : TRUE) + 1 ELSE ranges[c].y]]

\* Scene geometry: triangles of the cube [0, 12]^3.
GridTriangles ==
    {<< <<0, 0, 10>>, <<0, 12, 10>>, <<12, 12, 10>> >>,
     << <<6, 7, 9>>, <<11, 7, 9>>, <<6, 12, 9>> >>,
     << <<12, 0, 0>>, <<12, 1, 0>>, <<12, 0, 12>> >>,
     << <<0, 0, 0>>, <<12, 0, 0>>, <<0, 12, 12>> >>,
     << <<6, 0, 0>>, <<12, 0, 0>>, <<6, 6, 0>> >>}

GridScenes == UNION {[0..(n - 1) -> GridTriangles] : n \in 1..MaxGridTris}

\* Values of the density properties (setTopLevelDensity, setLeafDensity);
\* 2 is the value the constructor sets.
GridDensities == {2, 5}

GridDevices == {[wavefront |-> 4, wg |-> 4, localMem |-> m] : m \in {64, 512}}

\* Scene.cpp: modelsBoundingBox, the merge of the boxes of the models.
ModelsBoundingBox(scene) ==
    LET RECURSIVE Acc(_)
        Acc(g) ==
            IF g < 0 THEN EmptyBox
            ELSE LET b == calculateTriangleAABB(scene[g][1], scene[g][2], scene[g][3])
                     rest == Acc(g - 1)
                 IN  [lo |-> Min3Vec(b.lo, rest.lo), hi |-> Max3Vec(b.hi, rest.hi)]
    IN  Acc(Cardinality(DOMAIN scene) - 1)

\* Box of the top-level cell with coordinates idx (tlg_generate_contact).
CellBox(grid, idx) ==
    [lo |-> [k \in 1..3 |-> grid.box.lo[k] + idx[k] * grid.step[k]],
     hi |-> [k \in 1..3 |-> grid.box.lo[k] + idx[k] * grid.step[k] + grid.step[k]]]

\* TwoLevelGridManager::initializeFrame followed by the entry of construct.
InitGrid ==
    /\ phase = "grid"
    /\ gridScene \in GridScenes
    /\ \E topLevelDensity \in GridDensities :
          LET prims == Cardinality(DOMAIN gridScene)
              bounds == ModelsBoundingBox(gridScene)
          IN  /\ GridRepresentable(bounds, prims, topLevelDensity)
              /\ gridData = calculateGridData(bounds, prims, topLevelDensity, 2)
    /\ gridDevice \in GridDevices
    /\ counters =
          [i \in 0..(Max2(2 * largestPowerOfTwo(Cardinality(DOMAIN gridScene)),
                          2 * largestPowerOfTwo(gridData.res[1] * gridData.res[2]
                                                * gridData.res[3])) - 1) |-> 0]
    /\ prefixSumOutput = counters
    /\ pairsCount = 0
    /\ pairsArray = <<>>
    /\ cellRangesArray =
          [c \in 0..(gridData.res[1] * gridData.res[2] * gridData.res[3] - 1) |->
              [x |-> 0, y |-> 0]]
    /\ gridPc = "prepareData"
    /\ gridItems = {}
    /\ gridResult = "none"
    /\ scanSize = 0
    /\ scanInput = <<>>
    /\ scanOutput = <<>>
    /\ scanOffset = 0
    /\ scanPc = "idle"
    /\ scanResult = "none"
    /\ scanDevice = [wg |-> gridDevice.wg, localMem |-> gridDevice.localMem]
    /\ scanLaunches = 0
    /\ SortIdle
    /\ BvhIdle
    /\ TlgIdle
    /\ FramesIdle
    /\ HostIdle

\* Work item g of the prepareData kernel: prepareGridData
GridPrepareData(g) ==
    /\ gridPc = "prepareData"
    /\ g \in DOMAIN gridScene \ gridItems
    /\ counters' = [counters EXCEPT ![g] =
          countOverlappingCells(gridScene[g][1], gridScene[g][2], gridScene[g][3], gridData)]
    /\ gridItems' = gridItems \cup {g}
    /\ UNCHANGED <<notGridVars, sortVars, scanVars, prefixSumOutput, pairsCount, pairsArray,
                   cellRangesArray, gridPc, gridResult>>

\* construct: the kernel has finished; computePrefixSum is entered.
GridPrefixSumCall ==
    /\ gridPc = "prepareData"
    /\ gridItems = DOMAIN gridScene
    /\ gridPc' = "computePrefixSum"
    /\ gridItems' = {}
    /\ scanSize' = 2 * largestPowerOfTwo(Cardinality(DOMAIN gridScene))
    /\ scanInput' = [i \in 0..(scanSize' - 1) |-> counters[i]]
    /\ scanOutput' = [i \in 0..(scanSize' - 1) |-> prefixSumOutput[i]]
    /\ scanOffset' = 0
    /\ scanPc' = "check"
    /\ scanResult' = "none"
    /\ scanLaunches' = 0
    /\ UNCHANGED <<notGridVars, sortVars, scanDevice, counters, prefixSumOutput, pairsCount,
                   pairsArray, cellRangesArray, gridResult>>

\* construct: computePrefixSum has returned; _pairsCount is read back and
\* the pair array is allocated and filled with (UINT_MAX, UINT_MAX).
GridPrefixSumReturn ==
    /\ gridPc = "computePrefixSum"
    /\ scanPc = "return"
    /\ prefixSumOutput' = [i \in DOMAIN prefixSumOutput |->
                               IF i < scanSize THEN scanOutput[i] ELSE prefixSumOutput[i]]
    /\ IF scanResult = "Error"
       THEN /\ gridPc' = "return"
            /\ gridResult' = "Error"
            /\ UNCHANGED <<pairsCount, pairsArray>>
       ELSE /\ pairsCount' = scanOutput[Cardinality(DOMAIN gridScene) - 1]
            /\ pairsArray' = [i \in 0..(2 * largestPowerOfTwo(pairsCount') - 1) |->
                                 [x |-> UINT_MAX, y |-> UINT_MAX]]
            /\ gridPc' = "writePairs"
            /\ UNCHANGED gridResult
    /\ UNCHANGED <<notGridVars, sortVars, scanVars, counters, cellRangesArray, gridItems>>

\* TwoLevelGrid.h writePairs and writeLeafPairs, mutated: the write starts at the inclusive
\* sum of the item.
myStart_Inclusive(prefixSum, cnt, tlpIndex) == prefixSum[tlpIndex]

\* TwoLevelGrid.h writePairs and writeLeafPairs: the first index of the
\* range of an item.
myStart(prefixSum, cnt, tlpIndex) == prefixSum[tlpIndex] - cnt[tlpIndex]

\* Work item g of the writePairs kernel: writePairs
GridWritePairs(g) ==
    /\ gridPc = "writePairs"
    /\ g \in DOMAIN gridScene \ gridItems
    /\ LET start == myStart(prefixSumOutput, counters, g)
           written == writeOverlappingPairs(gridScene[g][1], gridScene[g][2],
                                            gridScene[g][3], gridData, g)
       IN  pairsArray' = [i \in DOMAIN pairsArray |->
               IF (i - start) \in DOMAIN written THEN written[i - start]
               ELSE pairsArray[i]]
    /\ gridItems' = gridItems \cup {g}
    /\ UNCHANGED <<notGridVars, sortVars, scanVars, counters, prefixSumOutput, pairsCount,
                   cellRangesArray, gridPc, gridResult>>

\* construct: the kernel has finished; BitonicSort::sort is entered.
GridSortCall ==
    /\ gridPc = "writePairs"
    /\ gridItems = DOMAIN gridScene
    /\ gridPc' = "sort"
    /\ gridItems' = {}
    /\ sortItems' = Cardinality(DOMAIN pairsArray)
    /\ sortInput' = pairsArray
    /\ sortData' = pairsArray
    /\ sortLength' = 1
    /\ sortInc' = 0
    /\ sortPc' = "for"
    /\ sortKid' = "none"
    /\ sortResult' = "none"
    /\ UNCHANGED <<notGridVars, scanVars, counters, prefixSumOutput, pairsCount, pairsArray,
                   cellRangesArray, gridResult>>

\* construct: sort has returned; the counters and the prefix-sum buffer are
\* zeroed for reuse and the local memory needed by the cell-range kernel is
\* checked.
GridSortReturn ==
    /\ gridPc = "sort"
    /\ sortPc = "return"
    /\ pairsArray' = sortData
    /\ IF sortResult = "Error"
       THEN /\ gridPc' = "return"
            /\ gridResult' = "Error"
            /\ UNCHANGED <<counters, prefixSumOutput>>
       ELSE /\ counters' = [i \in DOMAIN counters |-> 0]
            /\ prefixSumOutput' = [i \in DOMAIN prefixSumOutput |-> 0]
            /\ IF (gridDevice.wavefront + 1) * 8 > gridDevice.localMem \div 8
               THEN gridPc' = "return" /\ gridResult' = "Error"
               ELSE gridPc' = "writeCellRanges" /\ UNCHANGED gridResult
    /\ UNCHANGED <<notGridVars, sortVars, scanVars, pairsCount, cellRangesArray, gridItems>>

\* Work group w of the cell-range kernel.
GridWriteCellRanges(w) ==
    /\ gridPc = "writeCellRanges"
    /\ w \in 0..(closestMultipleTo(pairsCount, gridDevice.wavefront)
                   \div gridDevice.wavefront - 1) \ gridItems
    /\ cellRangesArray' = extractCellRanges(pairsArray, pairsCount, cellRangesArray, w,
                                            gridDevice.wavefront)
    /\ gridItems' = gridItems \cup {w}
    /\ UNCHANGED <<notGridVars, sortVars, scanVars, counters, prefixSumOutput, pairsCount,
                   pairsArray, gridPc, gridResult>>

\* construct: the enqueue, flush or wait of one of the three kernels fails.
GridKernelFails ==
    /\ gridPc \in {"prepareData", "writePairs", "writeCellRanges"}
    /\ gridPc' = "return"
    /\ gridResult' = "Error"
    /\ UNCHANGED <<notGridVars, sortVars, scanVars, counters, prefixSumOutput, pairsCount,
                   pairsArray, cellRangesArray, gridItems>>

\* construct: the read-back of _pairsCount or the fill of the pair array after
\* the prefix sum fails, or a fill of the counters after the sort.
GridTransferFails ==
    /\ \/ gridPc = "computePrefixSum" /\ scanPc = "return" /\ scanResult = "Success"
       \/ gridPc = "sort" /\ sortPc = "return" /\ sortResult = "Success"
    /\ prefixSumOutput' = IF gridPc = "computePrefixSum"
                          THEN [i \in DOMAIN prefixSumOutput |->
                                   IF i < scanSize THEN scanOutput[i] ELSE prefixSumOutput[i]]
                          ELSE prefixSumOutput
    /\ pairsArray' = IF gridPc = "sort" THEN sortData ELSE pairsArray
    /\ gridPc' = "return"
    /\ gridResult' = "Error"
    /\ UNCHANGED <<notGridVars, sortVars, scanVars, counters, pairsCount, cellRangesArray,
                   gridItems>>

\* construct has no try block. An exception leaves it when SET_KERNEL_ARGS
\* fails before one of its three kernels is enqueued, when the allocation or
\* the resize of the pair array fails after the prefix sum (CLBuffer throws),
\* or when the sort it called was left by an exception.
GridThrows ==
    /\ \/ gridPc \in {"prepareData", "writePairs", "writeCellRanges"} /\ gridItems = {}
       \/ gridPc = "computePrefixSum" /\ scanPc = "return" /\ scanResult = "Success"
       \/ gridPc = "sort" /\ sortPc = "unwound"
    /\ gridPc' = "unwound"
    /\ gridResult' = "Exception"
    /\ UNCHANGED <<notGridVars, sortVars, scanVars, counters, prefixSumOutput, pairsCount,
                   pairsArray, cellRangesArray, gridItems>>

NextGrid ==
    \/ \E g \in 0..(MaxGridTris - 1) : GridPrepareData(g)
    \/ GridPrefixSumCall
    \/ NextScan
    \/ GridPrefixSumReturn
    \/ \E g \in 0..(MaxGridTris - 1) : GridWritePairs(g)
    \/ GridSortCall
    \/ NextSort
    \/ GridSortReturn
    \/ \E w \in 0..(8 * MaxGridTris) : GridWriteCellRanges(w)
    \/ GridKernelFails
    \/ GridTransferFails
    \/ GridThrows

SpecGrid == InitGrid /\ [][NextGrid]_vars

\* The sort of the top-level pairs has succeeded.
GridSorted == gridPc = "writeCellRanges"

\* The cell-range kernel has finished.
GridRangesWritten ==
    /\ gridPc = "writeCellRanges"
    /\ gridItems = 0..(closestMultipleTo(pairsCount, gridDevice.wavefront)
                         \div gridDevice.wavefront - 1)

\* (c, g) is one of the real entries of the pair array.
PairPresent(c, g) == \E p \in 0..(pairsCount - 1) : pairsArray[p] = [x |-> c, y |-> g]

GridCells == 0..(gridData.res[1] * gridData.res[2] * gridData.res[3] - 1)
TriangleBox(g) == calculateTriangleAABB(gridScene[g][1], gridScene[g][2], gridScene[g][3])
CellBoxOf(c) == CellBox(gridData, getCellRefFromIndex(c, gridData.res))

C9_PairsPerTriangleEqualCount ==
    /\ ((gridPc = "writePairs" /\ gridItems = DOMAIN gridScene) \/ gridPc = "sort") =>
          \A g \in DOMAIN gridScene :
              CountValue(pairsArray, Cardinality(DOMAIN pairsArray), g) = counters[g]
    /\ GridSorted =>
          \A g \in DOMAIN gridScene :
              CountValue(pairsArray, Cardinality(DOMAIN pairsArray), g) =
                  countOverlappingCells(gridScene[g][1], gridScene[g][2], gridScene[g][3],
                                        gridData)

\* The write kernel has finished for a scene of several triangles, one of
\* which lies in several cells and one in a single cell.
C9_Witness ==
    /\ gridPc = "sort"
    /\ \E g \in DOMAIN gridScene : counters[g] >= 2 /\ CountValue(pairsArray, pairsCount, g) >= 2
    /\ \E g \in DOMAIN gridScene : counters[g] = 1 /\ CountValue(pairsArray, pairsCount, g) = 1

\* C10: after the cell-range kernel, for every top-level cell c the range
\* (begin, end) of c is half-open and holds exactly the positions of the
\* sorted pair array whose key is c; for a cell that has pairs, only smaller
\* keys lie before begin and only larger keys from end on; for a cell that
\* has no pair, begin = end.
C10_CellRangesExact ==
    GridRangesWritten =>
        \A c \in GridCells :
            LET range == cellRangesArray[c]
                real == 0..(pairsCount - 1)
            IN  /\ \A p \in real : (pairsArray[p].x = c) <=> (range.x <= p /\ p < range.y)
                /\ (\E p \in real : pairsArray[p].x = c) =>
                      \A p \in real :
                          /\ p < range.x => pairsArray[p].x < c
                          /\ p >= range.y => pairsArray[p].x > c
                /\ (\A p \in real : pairsArray[p].x # c) => range.x = range.y

\* The kernel has finished on a grid with a cell that has no pair and a cell
\* whose range of two or more pairs begins inside the array.
C10_Witness ==
    /\ GridRangesWritten
    /\ \E c \in GridCells : \A p \in 0..(pairsCount - 1) : pairsArray[p].x # c
    /\ \E c \in GridCells : cellRangesArray[c].x > 0
                             /\ cellRangesArray[c].y >= cellRangesArray[c].x + 2

(***************************************************************************)
(* Two-level grid traversal: tlg_generate_contact, one action for its      *)
(* setup block and one per iteration of its loop; processTopLevelCell, the *)
(* function an iteration calls, is an operator.  The grid that is          *)
(* traversed is the one construct builds: per top-level cell the leaf      *)
(* resolution and first leaf index, per leaf cell the triangles of its     *)
(* range of the sorted leaf pair array.  Ray directions have components    *)
(* 1 or -1, so 1.0f / direction is the direction and every ray parameter   *)
(* of the walk is a whole number.                                          *)
(***************************************************************************)
\* AABB.h AABBTriangleIntersect with planeBoxOverlap and the AXISTEST macros.
\* The arguments are 2 * boxcenter and 2 * boxhalfsize, and the vertices are
\* doubled in the first step, so that halves of odd steps stay integers;
\* every comparison of the function is between terms of the same degree.
\* sign is the OpenCL built-in of the device build, which writes the leaf
\* pairs.
AABBTriangleIntersect(boxcenter2, boxsize, t0, t1, t2) ==
    LET v0 == [k \in 1..3 |-> boxcenter2[k] - 2 * t0[k]]
        v1 == [k \in 1..3 |-> boxcenter2[k] - 2 * t1[k]]
        v2 == [k \in 1..3 |-> boxcenter2[k] - 2 * t2[k]]
        fabs(x) == IF x < 0 THEN 0 - x ELSE x
        sign(x) == IF x > 0 THEN 1 ELSE IF x < 0 THEN 0 - 1 ELSE 0
        Within(pa, pb, rad) == Min2(pa, pb) <= rad /\ Max2(pa, pb) >= 0 - rad
        XP(e, v) == e[3] * v[2] - e[2] * v[3]
        XRad(e) == fabs(e[3]) * boxsize[2] + fabs(e[2]) * boxsize[3]
        YP(e, v) == (0 - e[3]) * v[1] + e[1] * v[3]
        YRad(e) == fabs(e[3]) * boxsize[1] + fabs(e[1]) * boxsize[3]
        ZP(e, v) == e[2] * v[1] - e[1] * v[2]
        ZRad(e) == fabs(e[2]) * boxsize[1] + fabs(e[1]) * boxsize[2]
        edge0 == VSub(v1, v0)
        edge1 == VSub(v2, v1)
        edge2 == VSub(v0, v2)
        normal == cross(VSub(v1, v0), VSub(v2, v1))
        vmin == [k \in 1..3 |-> (0 - sign(normal[k])) * boxsize[k] - v0[k]]
        vmax == [k \in 1..3 |-> sign(normal[k]) * boxsize[k] - v0[k]]
    IN  /\ Within(XP(edge0, v0), XP(edge0, v2), XRad(edge0))
        /\ Within(YP(edge0, v0), YP(edge0, v2), YRad(edge0))
        /\ Within(ZP(edge0, v1), ZP(edge0, v2), ZRad(edge0))
        /\ Within(XP(edge1, v0), XP(edge1, v2), XRad(edge1))
        /\ Within(YP(edge1, v0), YP(edge1, v2), YRad(edge1))
        /\ Within(ZP(edge1, v0), ZP(edge1, v1), ZRad(edge1))
        /\ Within(XP(edge2, v0), XP(edge2, v1), XRad(edge2))
        /\ Within(YP(edge2, v0), YP(edge2, v1), YRad(edge2))
        /\ Within(ZP(edge2, v1), ZP(edge2, v2), ZRad(edge2))
        /\ \A k \in 1..3 :
              /\ Min2(v0[k], Min2(v1[k], v2[k])) <= boxsize[k]
              /\ Max2(v0[k], Max2(v1[k], v2[k])) >= 0 - boxsize[k]
        /\ dot(normal, vmin) <= 0
        /\ dot(normal, vmax) >= 0

\* TwoLevelGrid.h calcLeafCellResolution
calcLeafCellResolution(numOfPrims, grid) ==
    [k \in 1..3 |-> FloorCubeRoot(grid.step[k], grid.step[1] * grid.step[2] * grid.step[3],
                                  grid.leafDensity * numOfPrims)]

\* The triangles of the range of top-level cell c: those that write a pair
\* with key c.
TopCellPrims(scene, grid, c) ==
    {g \in DOMAIN scene :
        LET written == writeOverlappingPairs(scene[g][1], scene[g][2], scene[g][3], grid, g)
        IN  \E i \in DOMAIN written : written[i].x = c}

\* TwoLevelGrid.h fillTopLevelCell: the leaf resolution of top-level cell c,
\* computed from the length of its range of the top-level pair array.
fillTopLevelCell(scene, grid, c) ==
    calcLeafCellResolution(Cardinality(TopCellPrims(scene, grid, c)), grid)

\* The top-level cell array after the prefix sum of the leaf counts and the
\* kernel that stores the first leaf index of each cell.
TopLevelCells(scene, grid) ==
    LET resOf(c) == fillTopLevelCell(scene, grid, c)
        RECURSIVE First(_)
        First(c) == IF c = 0 THEN 0
                    ELSE First(c - 1) + resOf(c - 1)[1] * resOf(c - 1)[2] * resOf(c - 1)[3]
    IN  [c \in 0..(grid.res[1] * grid.res[2] * grid.res[3] - 1) |->
            [res |-> resOf(c), firstLeafIdx |-> First(c)]]

\* The top-level cell that holds leaf cell leaf.
CellOfLeaf(cells, leaf) ==
    CHOOSE c \in DOMAIN cells :
        /\ cells[c].firstLeafIdx <= leaf
        /\ leaf < cells[c].firstLeafIdx + cells[c].res[1] * cells[c].res[2] * cells[c].res[3]

\* Box of a leaf cell (countOverlappingLeafCells, writeOverlappingLeafPairs).
LeafCellBox(grid, cells, leaf) ==
    LET c == CellOfLeaf(cells, leaf)
        top == CellBox(grid, getCellRefFromIndex(c, grid.res))
        at == getCellRefFromIndex(leaf - cells[c].firstLeafIdx, cells[c].res)
        leafStep == [k \in 1..3 |-> grid.step[k] \div cells[c].res[k]]
    IN  [lo |-> [k \in 1..3 |-> top.lo[k] + at[k] * leafStep[k]],
         hi |-> [k \in 1..3 |-> top.lo[k] + at[k] * leafStep[k] + leafStep[k]]]

\* TwoLevelGrid.h writeOverlappingLeafPairs: the triangles of the top-level
\* cell of leaf cell leaf for which a pair with key leaf is written, those
\* that pass AABBTriangleIntersect with the leaf cell.
LeafPrims(scene, grid, cells, leaf) ==
    LET box == LeafCellBox(grid, cells, leaf)
    IN  {g \in TopCellPrims(scene, grid, CellOfLeaf(cells, leaf)) :
            AABBTriangleIntersect([k \in 1..3 |-> box.lo[k] + box.hi[k]],
                                  [k \in 1..3 |-> box.hi[k] - box.lo[k]],
                                  scene[g][1], scene[g][2], scene[g][3])}

\* The leaf ranges after the sort of the leaf pairs and the leaf range
\* kernel: the range of a leaf cell names the triangles of the pairs written
\* with its key.
LeavesArray(scene, grid, cells) ==
    LET last == cells[Cardinality(DOMAIN cells) - 1]
    IN  [leaf \in 0..(last.firstLeafIdx + last.res[1] * last.res[2] * last.res[3] - 1) |->
            LeafPrims(scene, grid, cells, leaf)]

\* The leaf levels of the model: every leaf step is a whole number, no leaf
\* resolution hangs on rounding, and every leaf pair that
\* countOverlappingLeafCells counts (AABBOverlaps) is written (the leaf pair
\* array holds no unwritten entry below its count).
LeafLevelRepresentable(scene, grid, cells) ==
    /\ \A c \in DOMAIN cells : \A k \in 1..3 :
          /\ cells[c].res[k] > 0 => grid.step[k] % cells[c].res[k] = 0
          /\ ~CubeRootIsWhole(grid.step[k], grid.step[1] * grid.step[2] * grid.step[3],
                              grid.leafDensity * Cardinality(TopCellPrims(scene, grid, c)))
    /\ LET leaves == LeavesArray(scene, grid, cells)
       IN  \A leaf \in DOMAIN leaves :
               \A g \in TopCellPrims(scene, grid, CellOfLeaf(cells, leaf)) :
                   AABBOverlaps(LeafCellBox(grid, cells, leaf),
                                calculateTriangleAABB(scene[g][1], scene[g][2], scene[g][3]))
                       => g \in leaves[leaf]

GridRays ==
    {[origin |-> o, direction |-> d] :
        o \in {<<1, 2, 3>>, <<0 - 5, 1, 1>>, <<11, 10, 9>>},
        d \in {<<x, y, z>> : x \in {0 - 1, 1}, y \in {0 - 1, 1}, z \in {0 - 1, 1}}}

\* The setup block of tlg_generate_contact and of processTopLevelCell.
DDASetup(box, res, ray) ==
    LET a == ray.direction
        tmin == [k \in 1..3 |->
                    ((IF a[k] >= 0 THEN box.lo[k] ELSE box.hi[k]) - ray.origin[k]) * a[k]]
        tmax == [k \in 1..3 |->
                    ((IF a[k] >= 0 THEN box.hi[k] ELSE box.lo[k]) - ray.origin[k]) * a[k]]
        t0 == Min2(tmin[1], Min2(tmin[2], tmin[3]))
        p == IF isPointInside(box, ray.origin) THEN ray.origin
             ELSE [k \in 1..3 |-> ray.origin[k] + ray.direction[k] * t0]
        idx == [k \in 1..3 |->
                   Min2(Max2(((p[k] - box.lo[k]) * res[k]) \div (box.hi[k] - box.lo[k]), 0),
                        res[k] - 1)]
        dt == [k \in 1..3 |-> (tmax[k] - tmin[k]) \div res[k]]
    IN  [t0 |-> t0,
         tmax |-> Max2(tmax[1], Max2(tmax[2], tmax[3])),
         idx |-> idx,
         dt |-> dt,
         next |-> [k \in 1..3 |->
                     IF ray.direction[k] > 0 THEN tmin[k] + (idx[k] + 1) * dt[k]
                     ELSE tmin[k] + (res[k] - idx[k]) * dt[k]],
         step |-> [k \in 1..3 |-> IF ray.direction[k] > 0 THEN 1 ELSE 0 - 1],
         stop |-> [k \in 1..3 |-> IF ray.direction[k] > 0 THEN res[k] ELSE 0 - 1]]

\* int axis = 0; while (minimal != next[axis]) axis++;  (axes are 1..3 here)
NextAxis(next) ==
    LET minimal == Min2(next[1], Min2(next[2], next[3]))
    IN  IF next[1] = minimal THEN 1 ELSE IF next[2] = minimal THEN 2 ELSE 3

\* TwoLevelGrid.h processTopLevelCell: the contact distance it returns and
\* the leaf cell it returns from.
processTopLevelCell(ray, scene, topLevelCell, cellBox, leaves) ==
    LET s == DDASetup(cellBox, topLevelCell.res, ray)
        RECURSIVE Walk(_, _)
        Walk(idx, next) ==
            LET axis == NextAxis(next)
                leafIndex == getCellIndex(idx, topLevelCell.res) + topLevelCell.firstLeafIdx
                found == {h \in {triangleIntersect(scene[g][1], scene[g][2], scene[g][3],
                                                   ray.origin, ray.direction) :
                                 g \in leaves[leafIndex]} : h.num > 0}
            IN  IF found # {}
                THEN [contactDist |-> CHOOSE h \in found : \A o \in found : ~FracLess(o, h),
                      leaf |-> leafIndex]
                ELSE IF idx[axis] + s.step[axis] = s.stop[axis]
                THEN [contactDist |-> NoContact, leaf |-> 0 - 1]
                ELSE Walk([idx EXCEPT ![axis] = @ + s.step[axis]],
                          [next EXCEPT ![axis] = @ + s.dt[axis]])
    IN  Walk(s.idx, s.next)

\* tlg_generate_contact is entered on a grid that construct has built.
InitTlg ==
    /\ phase = "gridTraverse"
    /\ gridScene \in GridScenes
    /\ \E topLevelDensity \in GridDensities, leafDensity \in GridDensities :
          LET prims == Cardinality(DOMAIN gridScene)
              bounds == ModelsBoundingBox(gridScene)
          IN  /\ GridRepresentable(bounds, prims, topLevelDensity)
              /\ gridData = calculateGridData(bounds, prims, topLevelDensity, leafDensity)
    /\ gridDevice \in {d \in GridDevices : ~((d.wavefront + 1) * 8 > d.localMem \div 8)}
    /\ topLevelCells = TopLevelCells(gridScene, gridData)
    /\ LeafLevelRepresentable(gridScene, gridData, topLevelCells)
    /\ leavesArray = LeavesArray(gridScene, gridData, topLevelCells)
    /\ tlgRay \in GridRays
    /\ tlgIdx = <<>>
    /\ tlgNext = <<>>
    /\ tlgPc = "setup"
    /\ tlgResult = <<>>
    /\ tlgLeaf = 0 - 1
    /\ GridBuildIdle
    /\ FramesIdle
    /\ HostIdle
    /\ BvhIdle
    /\ SortIdle
    /\ ScanIdle

\* The block before the loop.
TlgSetup ==
    /\ tlgPc = "setup"
    /\ LET s == DDASetup(gridData.box, gridData.res, tlgRay)
       IN  IF s.t0 > s.tmax
           THEN /\ tlgPc' = "done"
                /\ tlgResult' = NoContact
                /\ UNCHANGED <<tlgIdx, tlgNext>>
           ELSE /\ tlgPc' = "loop"
                /\ tlgIdx' = s.idx
                /\ tlgNext' = s.next
                /\ UNCHANGED tlgResult
    /\ UNCHANGED <<notTlgVars, tlgLeaf>>

\* The end of an iteration: next[axis] += dt[axis]; idx[axis] += step[axis];
\* if (idx[axis] == stop[axis]) return NO_CONTACT;
TlgAdvance ==
    LET s == DDASetup(gridData.box, gridData.res, tlgRay)
        axis == NextAxis(tlgNext)
    IN  /\ tlgNext' = [tlgNext EXCEPT ![axis] = @ + s.dt[axis]]
        /\ tlgIdx' = [tlgIdx EXCEPT ![axis] = @ + s.step[axis]]
        /\ IF tlgIdx'[axis] = s.stop[axis]
           THEN tlgPc' = "done" /\ tlgResult' = NoContact
           ELSE UNCHANGED <<tlgPc, tlgResult>>
        /\ UNCHANGED tlgLeaf

\* An iteration on a cell none of whose leaf resolutions is 0.
TlgVisit ==
    /\ tlgPc = "loop"
    /\ LET cell == topLevelCells[getCellIndex(tlgIdx, gridData.res)]
       IN  /\ ~(cell.res[1] = 0 \/ cell.res[2] = 0 \/ cell.res[3] = 0)
           /\ LET result == processTopLevelCell(tlgRay, gridScene, cell,
                                                CellBox(gridData, tlgIdx), leavesArray)
              IN  IF result.contactDist.num > 0
                  THEN /\ tlgPc' = "done"
                       /\ tlgResult' = result.contactDist
                       /\ tlgLeaf' = result.leaf
                       /\ UNCHANGED <<tlgIdx, tlgNext>>
                  ELSE TlgAdvance
    /\ UNCHANGED notTlgVars

\* An iteration on a cell with a leaf resolution of 0.
TlgSkip ==
    /\ tlgPc = "loop"
    /\ LET cell == topLevelCells[getCellIndex(tlgIdx, gridData.res)]
       IN  cell.res[1] = 0 \/ cell.res[2] = 0 \/ cell.res[3] = 0
    /\ TlgAdvance
    /\ UNCHANGED notTlgVars

NextTlg ==
    \/ TlgSetup
    \/ TlgVisit
    \/ TlgSkip

SpecTlg == InitTlg /\ [][NextTlg]_vars

\* C7: for every ray, the distance tlg_generate_contact returns is that of a
\* brute-force test of all triangles: it is the smallest positive
\* ray/triangle intersection distance of the scene, and it is 0 exactly when
\* the ray hits no triangle.
C7_GridClosestHitAsBruteForce ==
    tlgPc = "done" =>
        LET hits == Hits(gridScene, tlgRay)
        IN  /\ (tlgResult.num = 0) <=> (hits = {})
            /\ hits # {} =>
                  /\ \E h \in hits : FracEq(h, tlgResult)
                  /\ \A h \in hits : ~FracLess(h, tlgResult)

\* The traversal has returned a hit from a leaf cell although the hit point
\* lies outside that leaf cell and another triangle is hit at a smaller
\* distance.
FartherHitReturned ==
    /\ tlgPc = "done"
    /\ tlgResult.num > 0
    /\ \E h \in Hits(gridScene, tlgRay) : FracLess(h, tlgResult)
    /\ LET box == LeafCellBox(gridData, topLevelCells, tlgLeaf)
       IN  \E k \in 1..3 :
              LET at == tlgRay.origin[k] * tlgResult.den
                            + tlgRay.direction[k] * tlgResult.num
              IN  at < box.lo[k] * tlgResult.den \/ at > box.hi[k] * tlgResult.den

(***************************************************************************)
(* The boxes of the finished hierarchy against the union of the leaf boxes *)
(***************************************************************************)
\* The leaves of the subtree of node n.
RECURSIVE LeavesBelow(_)
LeavesBelow(n) ==
    IF n < numLeaves THEN {n}
    ELSE LeavesBelow(nodes[n].childA) \cup LeavesBelow(nodes[n].childB)

\* The smallest box around the boxes of a set of leaves.
UnionOfLeafBoxes(leaves) ==
    [lo |-> [k \in 1..3 |->
                CHOOSE v \in {boundingBox[g].lo[k] : g \in leaves} :
                    \A g \in leaves : v <= boundingBox[g].lo[k]],
     hi |-> [k \in 1..3 |->
                CHOOSE v \in {boundingBox[g].hi[k] : g \in leaves} :
                    \A g \in leaves : v >= boundingBox[g].hi[k]]]

\* C11: when the bounding-box kernel has finished, the box of every internal
\* node is exactly the union of the boxes of the leaves below it (so the box
\* of the root is the union of all leaf boxes), wherever the scene lies.
C11_InternalBoxIsUnionOfLeaves ==
    BBoxComplete =>
        \A n \in numLeaves..(2 * numLeaves - 2) :
            boundingBox[n] = UnionOfLeafBoxes(LeavesBelow(n))

\* The same statement for the scenes in which every leaf box has positive
\* upper bounds.
UnionExactForPositiveUpperBounds ==
    (BBoxComplete /\ \A g \in 0..(numLeaves - 1) : \A k \in 1..3 :
                         boundingBox[g].hi[k] >= FLT_MIN) =>
        \A n \in numLeaves..(2 * numLeaves - 2) :
            boundingBox[n] = UnionOfLeafBoxes(LeavesBelow(n))

\* The propagation has finished on a scene with all coordinates negative and
\* the upper bound of the root box is the FLT_MIN of constructNode, above
\* every leaf.
RootKeepsInitialUpperBound ==
    /\ BBoxComplete
    /\ \A g \in 0..(numLeaves - 1) : \A k \in 1..3 : boundingBox[g].hi[k] < 0
    /\ \A k \in 1..3 : boundingBox[numLeaves].hi[k] = FLT_MIN
    /\ boundingBox[numLeaves].lo = UnionOfLeafBoxes(0..(numLeaves - 1)).lo

(***************************************************************************)
(* The traversal stack.  The keys of the model have TravKeyBits bits where *)
(* the Morton codes of the program have 30, and the stack of 32 entries    *)
(* corresponds to TravKeyBits + 2 entries: the UINT_MAX pushed first, one  *)
(* entry per key bit on which the path to the current node went to child A *)
(* and one for a run of equal keys.                                        *)
(***************************************************************************)
TravKeyBits == BitLength(MaxTravKey)

InitSingle ==
    /\ phase = "single"
    /\ GridIdle
    /\ SortIdle
    /\ ScanIdle
    /\ BBoxIdle
    /\ numLeaves = 1
    /\ \E key \in 0..MaxTravKey : mcToLeaves = [i \in {0} |-> [x |-> key, y |-> 0]]
    /\ nodes = NodesAfterMorton(numLeaves)
    /\ \E kind \in SceneKinds : travScene = [g \in {0} |-> Triangle(g, kind)]
    /\ boundingBox = [i \in {0} |->
                         calculateTriangleAABB(travScene[i][1], travScene[i][2], travScene[i][3])]
    /\ constructed = {}
    /\ parentWrites = [i \in {0} |-> 0]
    /\ travRay \in [origin : RayOrigins, direction : RayDirections]
    /\ travCurrent = 0
    /\ travStack = <<>>
    /\ travBest = [num |-> FLT_MAX, den |-> 1]
    /\ travPc = "radix"
    /\ travResult = NoContact
    /\ travMaxDepth = 0

\* construct, step 3: the radix tree kernel is enqueued with global size
\* closestMultipleTo(_bvhLeavesCount - 1, warp).  For a size of 0 the backend
\* either rejects the launch (construct returns Error) or runs no work item;
\* no constructNode runs in either case.
SingleRadixLaunch ==
    /\ phase = "single"
    /\ travPc = "radix"
    /\ \E warp \in {1, 2, 4} :
          LET worksize == closestMultipleTo(numLeaves - 1, warp)
          IN  IF worksize = 0
              THEN travPc' \in {"constructError", "bbox"}
              ELSE travPc' = "bbox"
    /\ UNCHANGED <<notTravVars, travCurrent, travStack, travBest, travResult, travMaxDepth>>

\* construct, step 4: the work item of the leaf reads the parent field of
\* its node.  No constructNode has stored it: the walk starts from an
\* indeterminate index, which the kernel may survive or not.
SingleBBoxLaunch ==
    /\ phase = "single"
    /\ travPc = "bbox"
    /\ IF nodes[0].parent = Unwritten
       THEN travPc' \in {"undefined", "constructed"}
       ELSE travPc' = "constructed"
    /\ UNCHANGED <<notTravVars, travCurrent, travStack, travBest, travResult, travMaxDepth>>

\* generateContacts passes rootIdx = _bvhLeavesCount; bvh_generate_contact
\* pushes UINT_MAX and reads bvh[rootIdx].  An index outside the node buffer
\* is a read of whatever lies behind it: the traversal may return no contact,
\* return the contact of the triangle, or not return.
SingleGenerateContacts ==
    /\ phase = "single"
    /\ travPc = "constructed"
    /\ travCurrent' = numLeaves
    /\ travStack' = <<UINT_MAX>>
    /\ travMaxDepth' = 1
    /\ IF travCurrent' \in DOMAIN nodes
       THEN travPc' = "loop" /\ UNCHANGED travResult
       ELSE \/ travPc' = "undefined" /\ UNCHANGED travResult
            \/ /\ travPc' = "done"
               /\ travResult' \in {NoContact} \cup Hits(travScene, travRay)
    /\ UNCHANGED <<notTravVars, travBest>>

NextSingle ==
    \/ SingleRadixLaunch
    \/ SingleBBoxLaunch
    \/ SingleGenerateContacts

SpecSingle == InitSingle /\ [][NextSingle]_vars

\* C13: for a scene of one triangle, once generateContacts has started the
\* traversal after construct, the node it starts at lies inside the node
\* buffer of 2N - 1 elements and was initialised by construct, and a ray
\* that hits the triangle gets a contact.
C13_SingleTriangleRootValid ==
    (phase = "single" /\ travStack # <<>>) =>
        /\ travCurrent \in DOMAIN nodes
        /\ travCurrent \in 0..(2 * numLeaves - 2)
        /\ travPc # "undefined"
        /\ (travPc = "done" /\ Hits(travScene, travRay) # {}) => travResult.num > 0

\* The traversal of a one-triangle scene has started at index 1 of a node
\* buffer of one element and has returned no contact for a ray that hits
\* the triangle.
RootOutsideNodeBuffer ==
    /\ phase = "single"
    /\ travPc = "done"
    /\ travCurrent = numLeaves
    /\ DOMAIN nodes = {0}
    /\ Hits(travScene, travRay) # {}
    /\ travResult = NoContact

(***************************************************************************)
(* CLBuffer and the leaf range buffer of the two-level grid over several   *)
(* frames.  Buffer sizes are counted in elements.                          *)
(***************************************************************************)
\* Contents of an element of device memory that nothing has written since
\* the memory object was created; written elements hold the number of the
\* frame that wrote them, 1 or more.
Uninitialised == 0

\* A CLBuffer that holds no device memory.
NoBuffer == [size |-> 0, actualSize |-> 0, mem |-> 0, made |-> 0, data |-> <<>>]

\* CLBuffer::resize.  mem names the device memory object (made counts the
\* objects created so far); a new object has uninitialised contents.
resize(buf, newSize) ==
    IF newSize < buf.size
    THEN [buf EXCEPT !.size = newSize]
    ELSE IF newSize > buf.size /\ newSize < buf.actualSize
    THEN [buf EXCEPT !.size = newSize]
    ELSE [size |-> newSize,
          actualSize |-> newSize,
          mem |-> IF newSize > 0 THEN buf.made + 1 ELSE 0,
          made |-> IF newSize > 0 THEN buf.made + 1 ELSE buf.made,
          data |-> [i \in 0..(newSize - 1) |-> Uninitialised]]

\* Scenes of the frames of a multi-frame run.
FrameScenes ==
    {scene \in GridScenes : Cardinality(DOMAIN scene) = 2 /\ scene[0] # scene[1]}

\* The leaf cell whose range processTopLevelCell reads first for a ray, -1
\* when the top-level cell the ray starts in has no leaf cells.
FirstLeafRead(grid, cells, ray) ==
    LET top == DDASetup(grid.box, grid.res, ray).idx
        cell == cells[getCellIndex(top, grid.res)]
    IN  IF cell.res[1] = 0 \/ cell.res[2] = 0 \/ cell.res[3] = 0 THEN 0 - 1
        ELSE getCellIndex(DDASetup(CellBox(grid, top), cell.res, ray).idx, cell.res)
                 + cell.firstLeafIdx

InitFrames ==
    /\ phase = "frames"
    /\ gridScene = <<>>
    /\ gridData = <<>>
    /\ gridDevice = <<>>
    /\ GridBuildIdle
    /\ TlgIdle
    /\ clBuffer = NoBuffer
    /\ frameNo = 0
    /\ framePc = "frame"
    /\ frameRead = <<>>
    /\ HostIdle
    /\ BvhIdle
    /\ BBoxIdle
    /\ TravIdle
    /\ SortIdle
    /\ ScanIdle

\* One frame: initializeFrame and construct on the scene of the frame.  The
\* leaf range buffer is resized to the number of leaf cells (created on the
\* first frame) and is not filled; the leaf range kernel then stores a range
\* for every leaf cell that has a pair.
FramesConstruct ==
    /\ phase = "frames"
    /\ framePc = "frame"
    /\ frameNo < MaxFrames
    /\ frameNo' = frameNo + 1
    /\ framePc' = "built"
    /\ gridScene' \in FrameScenes
    /\ \E topLevelDensity \in GridDensities, leafDensity \in GridDensities :
          LET prims == Cardinality(DOMAIN gridScene')
              bounds == ModelsBoundingBox(gridScene')
          IN  /\ GridRepresentable(bounds, prims, topLevelDensity)
              /\ gridData' = calculateGridData(bounds, prims, topLevelDensity, leafDensity)
    /\ topLevelCells' = TopLevelCells(gridScene', gridData')
    /\ LeafLevelRepresentable(gridScene', gridData', topLevelCells')
    /\ leavesArray' = LeavesArray(gridScene', gridData', topLevelCells')
    /\ LET leafCellsCount == Cardinality(DOMAIN leavesArray')
           resized == resize(clBuffer, leafCellsCount)
       IN  clBuffer' = [resized EXCEPT
                           !.data = [i \in DOMAIN resized.data |->
                                        IF i < leafCellsCount /\ leavesArray'[i] # {}
                                        THEN frameNo' ELSE resized.data[i]]]
    /\ UNCHANGED <<notFrameVars, gridDevice,
                   gridBuildVars, tlgRay, tlgIdx, tlgNext, tlgPc, tlgResult, tlgLeaf,
                   frameRead>>

\* generateContacts for one ray: leafRange = leavesArray[leafIndex] in the
\* first leaf cell of the ray.
FramesGenerateContacts ==
    /\ phase = "frames"
    /\ framePc = "built"
    /\ \E ray \in GridRays :
          LET leafIndex == FirstLeafRead(gridData, topLevelCells, ray)
          IN  /\ leafIndex >= 0
              /\ frameRead' = [frame |-> frameNo, leaf |-> leafIndex,
                               value |-> clBuffer.data[leafIndex]]
    /\ UNCHANGED <<notFrameVars, gridInputs,
                   gridBuildVars, tlgVars, clBuffer, frameNo, framePc>>

\* The frame is over; the buffers stay as they are for the next frame.
FramesEndFrame ==
    /\ phase = "frames"
    /\ framePc = "built"
    /\ framePc' = "frame"
    /\ frameRead' = <<>>
    /\ UNCHANGED <<notFrameVars, gridInputs,
                   gridBuildVars, tlgVars, clBuffer, frameNo>>

NextFrames ==
    \/ FramesConstruct
    \/ FramesGenerateContacts
    \/ FramesEndFrame

SpecFrames == InitFrames /\ [][NextFrames]_vars

\* C14: over any number of frames, the leaf range that generateContacts
\* reads was written during the current frame: it is neither left over from
\* an earlier frame nor the contents of a new allocation, also for a leaf
\* cell that received no pair.
C14_LeafRangeReadIsOfThisFrame ==
    (phase = "frames" /\ frameRead # <<>>) => frameRead.value = frameRead.frame

\* generateContacts has read, in the second frame, the range that the first
\* frame stored for the leaf cell.
StaleLeafRangeRead ==
    /\ phase = "frames"
    /\ frameRead # <<>>
    /\ frameRead.frame = 2
    /\ frameRead.value = 1

\* ---------------------------------------------------------------------------
\* Failure of a backend call inside sort, computePrefixSum and construct
\* ---------------------------------------------------------------------------

\* A backend call of the running construct, or of the sort or the prefix sum
\* it called, has failed (or a precondition check has returned Error).
BackendFailed ==
    \/ gridResult = "Error"
    \/ sortResult = "Error"
    \/ scanResult = "Error"

\* C15: once a launch, flush, wait, fill or read-back inside sort,
\* computePrefixSum or construct has failed, the failing call is the last
\* backend action: no further kernel is enqueued, no buffer is filled, and the
\* only steps left are the returns that hand Error to the caller.
C15_FailureIsLastBackendAction ==
    [][(phase = "grid" /\ BackendFailed) =>
          /\ UNCHANGED <<scanLaunches, scanOutput, sortData, sortKid, sortInc, scanOffset,
                         counters, cellRangesArray, pairsCount, gridItems>>
          /\ gridPc' = "return"
          /\ gridResult' = "Error"]_vars

\* The sort called by construct failed after a kernel of it had run, and
\* construct has returned Error.
C15_Witness ==
    /\ phase = "grid"
    /\ gridPc = "return"
    /\ gridResult = "Error"
    /\ sortResult = "Error"
    /\ sortKid # "none"

\* ---------------------------------------------------------------------------
\* Exceptions
\* ---------------------------------------------------------------------------

\* C16: no failure of a backend call made during construct or sort, the
\* failure to set a kernel argument or to allocate or resize a device buffer
\* included, leaves the call as an exception: the call returns Error.
C16_NoExceptionEscapes ==
    phase = "grid" => (sortResult # "Exception" /\ gridResult # "Exception")

\* A kernel argument of a sorting kernel could not be set: the exception has
\* left sort and then construct.
ExceptionEscapesSortAndConstruct ==
    /\ phase = "grid"
    /\ sortPc = "unwound"
    /\ sortResult = "Exception"
    /\ gridPc = "unwound"
    /\ gridResult = "Exception"

\* ---------------------------------------------------------------------------
\* getTriangleRefByIndex (SceneBufferParser.h)
\* ---------------------------------------------------------------------------

MaxModels == 3
MaxSubmeshes == 2
MaxMeshTris == 2

RECURSIVE SumSeq(_)
SumSeq(q) == IF q = <<>> THEN 0 ELSE Head(q) + SumSeq(Tail(q))

\* MODEL_HEADER(model)->numberOfTriangles: Scene.cpp stores the sum of the
\* triangle counts of the submeshes of the model.
ModelTriangles(model) == SumSeq(model)

\* SCENE_HEADER(scene)->totalNumberOfTriangles
TotalTriangles(scene) == SumSeq([m \in 1..Len(scene) |-> ModelTriangles(scene[m])])

\* Scenes as the walk sees them: per model the triangle counts of its
\* submeshes; models and submeshes without triangles are included.
RefModels == UNION {[1..k -> 0..MaxMeshTris] : k \in 1..MaxSubmeshes}
RefScenes == UNION {[1..k -> RefModels] : k \in 1..MaxModels}

\* "flag = accumulatedTriangles > triangleIndex" with ">=" instead of ">".
LoopFlag_AtLeast(accumulated, index) == accumulated >= index

\* flag = accumulatedTriangles > triangleIndex (both loops)
LoopFlag(accumulated, index) == accumulated > index

InitRef ==
    /\ phase = "ref"
    /\ refScene \in RefScenes
    /\ triangleIndex \in 0..(TotalTriangles(refScene) - 1)
    /\ currentModelIndex = -1
    /\ currentSubmeshIndex = -1
    /\ accumulatedTriangles = 0
    /\ refPc = "model"
    /\ refResult = <<>>
    /\ ResizeIdle
    /\ MainIdle
    /\ LaunchIdle
    /\ LeafIdle
    /\ LifeIdle
    /\ gridScene = <<>>
    /\ gridData = <<>>
    /\ gridDevice = <<>>
    /\ GridBuildIdle
    /\ TlgIdle
    /\ FramesIdle
    /\ BvhIdle
    /\ BBoxIdle
    /\ TravIdle
    /\ SortIdle
    /\ ScanIdle

notRefVars == <<phase, bvhVars, sortVars, scanVars, bbVars, travVars, gridInputs,
                gridBuildVars, tlgVars, frameVars, resizeVars, mainVars, launchVars,
                leafVars, lifeVars>>

\* One iteration of the first while loop, and the subtraction after it when
\* the loop is left.  getModelAtIndex past the last model reads outside the
\* model buffer.
RefModelLoop ==
    /\ refPc = "model"
    /\ currentModelIndex' = currentModelIndex + 1
    /\ IF currentModelIndex' >= Len(refScene)
       THEN /\ refPc' = "undefined"
            /\ UNCHANGED accumulatedTriangles
       ELSE LET tris == ModelTriangles(refScene[currentModelIndex' + 1])
            IN  IF LoopFlag(accumulatedTriangles + tris, triangleIndex)
                THEN /\ refPc' = "mesh"
                     /\ UNCHANGED accumulatedTriangles
                ELSE /\ refPc' = "model"
                     /\ accumulatedTriangles' = accumulatedTriangles + tris
    /\ UNCHANGED <<notRefVars, refScene, triangleIndex, currentSubmeshIndex, refResult>>

\* One iteration of the second while loop; when the loop is left, the
\* subtraction, the local index (the maximum of the unsigned values 0 and
\* triangleIndex - accumulatedTriangles is the difference) and the return.
\* getMeshAtIndex past the last submesh of the model reads outside the model.
RefMeshLoop ==
    /\ refPc = "mesh"
    /\ currentSubmeshIndex' = currentSubmeshIndex + 1
    /\ LET model == refScene[currentModelIndex + 1]
       IN  IF currentSubmeshIndex' >= Len(model)
           THEN /\ refPc' = "undefined"
                /\ UNCHANGED <<accumulatedTriangles, refResult>>
           ELSE LET tris == model[currentSubmeshIndex' + 1]
                IN  IF LoopFlag(accumulatedTriangles + tris, triangleIndex)
                    THEN /\ refPc' = "return"
                         /\ UNCHANGED accumulatedTriangles
                         /\ refResult' = <<currentModelIndex, currentSubmeshIndex',
                                           triangleIndex - accumulatedTriangles>>
                    ELSE /\ refPc' = "mesh"
                         /\ accumulatedTriangles' = accumulatedTriangles + tris
                         /\ UNCHANGED refResult
    /\ UNCHANGED <<notRefVars, refScene, triangleIndex, currentModelIndex>>

NextRef ==
    \/ RefModelLoop
    \/ RefMeshLoop

\* The function is sequential code: while it has not returned, it steps.
SpecRef == InitRef /\ [][NextRef]_vars /\ WF_vars(NextRef)

\* Triangles of the models before model m and of the submeshes of model m
\* before submesh sm (both 0-based).
TrianglesBefore(scene, m, sm) ==
    SumSeq([k \in 1..m |-> ModelTriangles(scene[k])])
        + SumSeq([k \in 1..sm |-> scene[m + 1][k]])

\* The references <<model, submesh, local>> that name global triangle g.
RefsOf(scene, g) ==
    {r \in (0..(Len(scene) - 1)) \X (0..(MaxSubmeshes - 1)) \X (0..(MaxMeshTris - 1)) :
        /\ r[2] < Len(scene[r[1] + 1])
        /\ r[3] < scene[r[1] + 1][r[2] + 1]
        /\ g = TrianglesBefore(scene, r[1], r[2]) + r[3]}

\* C17: for every global triangle index below the total, getTriangleRefByIndex
\* never reads past the models or submeshes of the scene, terminates, and
\* returns the one (model, submesh, local) with local below the triangle count
\* of the submesh and g = triangles of earlier models + triangles of earlier
\* submeshes of the model + local; models and submeshes without triangles
\* are skipped.
C17_TriangleRefTotalAndUnique ==
    /\ [](phase = "ref" =>
             /\ refPc # "undefined"
             /\ Cardinality(RefsOf(refScene, triangleIndex)) = 1
             /\ refPc = "return" => refResult \in RefsOf(refScene, triangleIndex))
    /\ <>(refPc = "return")

\* The walk has returned a triangle of the last model after skipping a model
\* without triangles and, inside the model, a submesh without triangles.
C17_Witness ==
    /\ phase = "ref"
    /\ refPc = "return"
    /\ \E m \in 1..Len(refScene) : m < refResult[1] + 1 /\ ModelTriangles(refScene[m]) = 0
    /\ refResult[2] = 1
    /\ refScene[refResult[1] + 1][1] = 0
    /\ refResult[3] = 1

\* ---------------------------------------------------------------------------
\* computePrefixSum: the precondition checks
\* ---------------------------------------------------------------------------

\* computePrefixSum called with any size, 0 included (size is a size_t).
InitScanAnySize ==
    /\ phase = "scan"
    /\ GridIdle
    /\ scanSize \in 0..MaxScanSize
    /\ scanInput \in ScanInputs(scanSize)
    /\ scanOutput \in StaleOutputs(scanSize)
    /\ scanOffset = 0
    /\ scanPc = "check"
    /\ scanResult = "none"
    /\ scanDevice \in ScanDevices
    /\ scanLaunches = 0
    /\ BvhIdle
    /\ SortIdle

SpecScanAnySize == InitScanAnySize /\ [][NextScan]_vars

\* x is one of 1, 2, 4, 8, ...
PowerOfTwo(x) == \E k \in 0..30 : 2 ^ k = x

\* The local memory of the device is smaller than the 2*W*4 bytes of a block.
LocalMemoryTooSmall(dev) == dev.localMem < 2 * dev.wg * 4

\* C18: whenever N is not a power of two or the local memory of the device is
\* smaller than 2*W*4 bytes, computePrefixSum returns Error and has launched
\* no kernel.
C18_ErrorWhenPreconditionFails ==
    (phase = "scan" /\ scanPc = "return"
        /\ (~PowerOfTwo(scanSize) \/ LocalMemoryTooSmall(scanDevice)))
    => (scanResult = "Error" /\ scanLaunches = 0)

\* The same statement for N >= 1.
ErrorWhenPreconditionFailsFromOne ==
    (phase = "scan" /\ scanPc = "return" /\ scanSize >= 1
        /\ (~PowerOfTwo(scanSize) \/ LocalMemoryTooSmall(scanDevice)))
    => (scanResult = "Error" /\ scanLaunches = 0)

\* A precondition failure never launches a kernel, whatever is returned.
NoLaunchWhenPreconditionFails ==
    (phase = "scan" /\ (~PowerOfTwo(scanSize) \/ LocalMemoryTooSmall(scanDevice)))
    => scanLaunches = 0

\* computePrefixSum(size = 0) has returned Success.
ZeroSizeAccepted ==
    /\ phase = "scan"
    /\ scanPc = "return"
    /\ scanSize = 0
    /\ scanResult = "Success"
    /\ scanLaunches = 0

\* ---------------------------------------------------------------------------
\* CLBuffer::resize (CLBuffer.cpp)
\* ---------------------------------------------------------------------------

MaxBufferSize == 3
MaxBuffersMade == 3

\* A CLBuffer as its constructor leaves it: size and allocated size are the
\* requested size, the memory object is new.
ConstructedBuffers ==
    {[size |-> n, actualSize |-> n, mem |-> 1, made |-> 1,
      data |-> [i \in 0..(n - 1) |-> Uninitialised]] : n \in 1..MaxBufferSize}

InitResize ==
    /\ phase = "resize"
    /\ clBuffer \in ConstructedBuffers
    /\ resizeArg = -1
    /\ resizePrev = <<>>
    /\ frameNo = 0
    /\ framePc = "idle"
    /\ frameRead = <<>>
    /\ RefIdle
    /\ MainIdle
    /\ LaunchIdle
    /\ LeafIdle
    /\ LifeIdle
    /\ gridScene = <<>>
    /\ gridData = <<>>
    /\ gridDevice = <<>>
    /\ GridBuildIdle
    /\ TlgIdle
    /\ BvhIdle
    /\ BBoxIdle
    /\ TravIdle
    /\ SortIdle
    /\ ScanIdle

notBufferVars == <<phase, bvhVars, sortVars, scanVars, bbVars, travVars, gridInputs,
                   gridBuildVars, tlgVars, frameNo, framePc, frameRead, refVars, mainVars,
                   launchVars, leafVars, lifeVars>>

\* A call of resize, as initializeFrame makes it on its buffers every frame.
ResizeCall(newSize) ==
    /\ phase = "resize"
    /\ clBuffer.made < MaxBuffersMade
    /\ resizePrev' = clBuffer
    /\ resizeArg' = newSize
    /\ clBuffer' = resize(clBuffer, newSize)
    /\ UNCHANGED notBufferVars

\* enqueueFillBuffer over the allocated size of the buffer, as initializeFrame
\* does after its resize calls.  The record of the last resize call ends here.
ResizeFill ==
    /\ phase = "resize"
    /\ clBuffer.mem # 0
    /\ clBuffer' = [clBuffer EXCEPT !.data = [i \in DOMAIN clBuffer.data |-> 1]]
    /\ resizeArg' = -1
    /\ resizePrev' = <<>>
    /\ UNCHANGED notBufferVars

NextResize ==
    \/ \E newSize \in 0..MaxBufferSize : ResizeCall(newSize)
    \/ ResizeFill

SpecResize == InitResize /\ [][NextResize]_vars

\* The last resize left the device memory object and its contents alone.
MemoryIntact ==
    /\ clBuffer.mem = resizePrev.mem
    /\ clBuffer.data = resizePrev.data
    /\ clBuffer.actualSize = resizePrev.actualSize

\* C19: resize(newSize) releases and re-creates the device memory object only
\* when newSize exceeds the allocated size; for every newSize at or below the
\* allocated size, newSize equal to the current size included, the existing
\* memory object is left intact.
C19_ReallocatesOnlyWhenLarger ==
    (phase = "resize" /\ resizeArg # -1) =>
        /\ resizeArg <= resizePrev.actualSize => MemoryIntact
        /\ ~MemoryIntact => resizeArg > resizePrev.actualSize

\* The same statement for requests below the current size and for requests
\* strictly between the current and the allocated size.
IntactWhenStrictlyInside ==
    (phase = "resize" /\ resizeArg # -1
        /\ (resizeArg < resizePrev.size
             \/ (resizeArg > resizePrev.size /\ resizeArg < resizePrev.actualSize)))
    => MemoryIntact

\* resize to the current size of a filled buffer has replaced the memory
\* object: the contents are gone.
SameSizeReallocates ==
    /\ phase = "resize"
    /\ resizeArg # -1
    /\ resizeArg = resizePrev.size
    /\ resizeArg > 0
    /\ \A i \in DOMAIN resizePrev.data : resizePrev.data[i] = 1
    /\ clBuffer.mem # resizePrev.mem
    /\ \A i \in DOMAIN clBuffer.data : clBuffer.data[i] = Uninitialised

\* resize to the allocated size of a shrunk buffer has replaced the memory
\* object.
AllocatedSizeReallocates ==
    /\ phase = "resize"
    /\ resizeArg # -1
    /\ resizeArg = resizePrev.actualSize
    /\ resizePrev.size < resizePrev.actualSize
    /\ clBuffer.mem # resizePrev.mem

\* ---------------------------------------------------------------------------
\* The viewer: exit code of main (OpenCLRayTracerDemo.cpp)
\* ---------------------------------------------------------------------------

INVALID == -1

\* The checked calls of main in order: initCL, interop initialize, scene load,
\* loadToGPU, manager initialize, initializeFrame, construct and the two
\* createCLGLBuffer calls.
CheckedCalls == 9

\* The globals after the loop of configure: the window sizes are what atoi
\* returned (0 when the switch is missing), the acceleration structure is
\* INVALID, BVH (0) or GRID (1), the two paths are empty or not.
MainConfigs ==
    [window_height : {-1, 0, 8}, window_width : {-1, 0, 8},
     accelerationStructInUse : {INVALID, 0, 1},
     scenePathEmpty : BOOLEAN, headersPathEmpty : BOOLEAN]

\* The return expression of configure.
configure(c) ==
    /\ c.window_height > 0
    /\ c.window_width > 0
    /\ c.accelerationStructInUse # INVALID
    /\ ~c.scenePathEmpty
    /\ ~c.headersPathEmpty

InitMain ==
    /\ phase = "main"
    /\ mainConfig \in MainConfigs
    /\ mainPc = "configure"
    /\ mainStep = 0
    /\ mainExit = 0
    /\ mainFailedStep = 0
    /\ RefIdle
    /\ ResizeIdle
    /\ LaunchIdle
    /\ LeafIdle
    /\ LifeIdle
    /\ FramesIdle
    /\ gridScene = <<>>
    /\ gridData = <<>>
    /\ gridDevice = <<>>
    /\ GridBuildIdle
    /\ TlgIdle
    /\ BvhIdle
    /\ BBoxIdle
    /\ TravIdle
    /\ SortIdle
    /\ ScanIdle

notMainVars == <<phase, bvhVars, sortVars, scanVars, bbVars, travVars, gridInputs,
                 gridBuildVars, tlgVars, frameVars, refVars, resizeVars, launchVars,
                 leafVars, lifeVars>>

\* if (!configure(argc, argv)) { printUsage(); return 0; }
MainConfigure ==
    /\ phase = "main"
    /\ mainPc = "configure"
    /\ IF configure(mainConfig)
       THEN /\ mainPc' = "init"
            /\ mainStep' = 1
            /\ UNCHANGED mainExit
       ELSE /\ mainPc' = "exited"
            /\ mainExit' = 0
            /\ UNCHANGED mainStep
    /\ UNCHANGED <<notMainVars, mainConfig, mainFailedStep>>

\* CHECKED_CALL(call): if (result != Success) { ...; return -1; }
MainCheckedCall(result) ==
    /\ phase = "main"
    /\ mainPc = "init"
    /\ IF result # "Success"
       THEN /\ mainPc' = "exited"
            /\ mainExit' = -1
            /\ mainFailedStep' = mainStep
            /\ UNCHANGED mainStep
       ELSE /\ mainPc' = IF mainStep = CheckedCalls THEN "loop" ELSE "init"
            /\ mainStep' = IF mainStep = CheckedCalls THEN mainStep ELSE mainStep + 1
            /\ UNCHANGED <<mainExit, mainFailedStep>>
    /\ UNCHANGED <<notMainVars, mainConfig>>

\* glutMainLoop(); return 0;
MainLoopReturns ==
    /\ phase = "main"
    /\ mainPc = "loop"
    /\ mainPc' = "exited"
    /\ mainExit' = 0
    /\ UNCHANGED <<notMainVars, mainConfig, mainStep, mainFailedStep>>

NextMain ==
    \/ MainConfigure
    \/ \E result \in {"Success", "Error"} : MainCheckedCall(result)
    \/ MainLoopReturns

SpecMain == InitMain /\ [][NextMain]_vars

\* C20: the viewer exits with a nonzero code whenever the parsing of the
\* command line fails (configure returns false) or an initialisation step
\* fails, and with 0 only on success.
C20_ExitCodeReflectsFailure ==
    (phase = "main" /\ mainPc = "exited") =>
        (mainExit # 0 <=> (~configure(mainConfig) \/ mainFailedStep # 0))

\* The same statement for the initialisation steps alone.
InitFailureExitsNonzero ==
    (phase = "main" /\ mainPc = "exited" /\ configure(mainConfig)) =>
        (mainExit # 0 <=> mainFailedStep # 0)

\* The command line named no scene: main has printed the usage and returned 0.
ParseFailureExitsZero ==
    /\ phase = "main"
    /\ mainPc = "exited"
    /\ ~configure(mainConfig)
    /\ mainConfig.scenePathEmpty
    /\ mainExit = 0

\* ---------------------------------------------------------------------------
\* Bounding-box propagation: who merges, and when
\* ---------------------------------------------------------------------------

\* The box of node c holds its final value: c is a leaf, or c has been merged.
BoxFinal(c) == c < numLeaves \/ bbMerges[c] = 1

\* C21: in every interleaving of the per-leaf work items, each internal node
\* is merged at most once (exactly once when the kernel has finished), by the
\* work item whose atomic increment found the counter at 1, and only when the
\* boxes of both children are final; the first work item to arrive stops and
\* leaves the node as constructNode initialised it.
C21_MergedOnceBySecondVisitor ==
    phase = "bbox" =>
        /\ \A n \in numLeaves..(2 * numLeaves - 2) :
              /\ bbMerges[n] <= 1
              /\ nodeVisitCounters[n - numLeaves] <= 2
              /\ bbMerges[n] = 1 =>
                    /\ nodeVisitCounters[n - numLeaves] = 2
                    /\ BoxFinal(nodes[n].childA)
                    /\ BoxFinal(nodes[n].childB)
              /\ bbMerges[n] = 0 => boundingBox[n] = EmptyBox
        /\ \A g \in 0..(numLeaves - 1) :
              bbThread[g].pc = "merge" =>
                  LET current == bbThread[g].current
                  IN  /\ nodeVisitCounters[current - numLeaves] = 2
                      /\ bbMerges[current] = 0
                      /\ BoxFinal(nodes[current].childA)
                      /\ BoxFinal(nodes[current].childB)
                      /\ \A h \in 0..(numLeaves - 1) \ {g} :
                            ~(bbThread[h].pc = "merge" /\ bbThread[h].current = current)
        /\ BBoxComplete => \A n \in numLeaves..(2 * numLeaves - 2) : bbMerges[n] = 1

\* A work item is about to merge an internal node whose children are both
\* internal nodes, while the first visitor of that node has stopped and other
\* work items are still under way.
C21_Witness ==
    /\ phase = "bbox"
    /\ \E g \in 0..(numLeaves - 1) :
          /\ bbThread[g].pc = "merge"
          /\ nodes[bbThread[g].current].childA >= numLeaves
          /\ nodes[bbThread[g].current].childB >= numLeaves
          /\ \E h \in 0..(numLeaves - 1) : bbThread[h].pc = "visit"

\* ---------------------------------------------------------------------------
\* Kernel launches of the host: enqueue, flush, wait (BVHManager::construct)
\* ---------------------------------------------------------------------------

MaxLaunchTris == 5

\* Launches of BitonicSort::sort from (length, inc) on: kernel, nThreads and
\* wg of lines 154-157; every launch is given the event of its own pass.
RECURSIVE SortLaunchList(_, _, _, _)
SortLaunchList(numItems, maxWorkgroupSize, length, inc) ==
    IF ~SortLoopCondition(length, numItems) THEN <<>>
    ELSE IF inc = 0
    THEN SortLaunchList(numItems, maxWorkgroupSize, 2 * length, 2 * length)
    ELSE LET k == SelectKernel(inc)
             nThreads == numItems \div Pow2(k.ninc)
         IN  <<[kernel |-> k.kid, global |-> nThreads,
                local |-> Min2(Min2(maxWorkgroupSize, 256), nThreads), event |-> TRUE]>>
             \o SortLaunchList(numItems, maxWorkgroupSize, length, inc \div Pow2(k.ninc))

\* _mortonBufferItems of initializeFrame
mortonBufferItems(n) ==
    IF largestPowerOfTwo(n) < n THEN 2 * largestPowerOfTwo(n) ELSE largestPowerOfTwo(n)

\* The launches of BVHManager::construct.  The execute parameters of the
\* bounding-box kernel are built from two work dimensions only: &evt is an
\* argument of the second CLKernelWorkDimension, not of the parameters, whose
\* event stays NULL.
BvhConstructLaunches(n, warp, maxWorkgroupSize) ==
    <<[kernel |-> "calculateMortonCodes", global |-> closestMultipleTo(n, warp),
       local |-> warp, event |-> TRUE]>>
    \o SortLaunchList(mortonBufferItems(n), maxWorkgroupSize, 1, 1)
    \o <<[kernel |-> "buildRadixTree", global |-> closestMultipleTo(n - 1, warp),
          local |-> warp, event |-> TRUE],
         [kernel |-> "computeBoundingBoxes", global |-> closestMultipleTo(n, warp),
          local |-> warp, event |-> FALSE]>>

\* Preferred work-group size multiples and maximal work-group sizes of the
\* modelled devices.
LaunchWarps == {1, 2, 4}
LaunchWorkgroupSizes == {1, 2, 4}

InitLaunch ==
    /\ phase = "launch"
    /\ \E n \in 1..MaxLaunchTris, warp \in LaunchWarps, wg \in LaunchWorkgroupSizes :
          launchProgram = BvhConstructLaunches(n, warp, wg)
    /\ launchIdx = 1
    /\ launchPc = "enqueue"
    /\ launchEvt = 0
    /\ launchStatus = [i \in 1..Len(launchProgram) |-> "none"]
    /\ launchResult = "none"
    /\ RefIdle
    /\ ResizeIdle
    /\ MainIdle
    /\ LeafIdle
    /\ LifeIdle
    /\ FramesIdle
    /\ gridScene = <<>>
    /\ gridData = <<>>
    /\ gridDevice = <<>>
    /\ GridBuildIdle
    /\ TlgIdle
    /\ BvhIdle
    /\ BBoxIdle
    /\ TravIdle
    /\ SortIdle
    /\ ScanIdle

notLaunchVars == <<phase, bvhVars, sortVars, scanVars, bbVars, travVars, gridInputs,
                   gridBuildVars, tlgVars, frameVars, refVars, resizeVars, mainVars,
                   leafVars, lifeVars>>

\* enqueueKernel: clEnqueueNDRangeKernel stores the event of the launch into
\* evt when the parameters hold &evt.  A launch may be rejected; a global
\* size of 0 is rejected or accepted as an empty launch, as the backend has it.
LaunchEnqueue(accepted) ==
    /\ phase = "launch"
    /\ launchPc = "enqueue"
    /\ IF accepted
       THEN /\ launchStatus' = [launchStatus EXCEPT ![launchIdx] = "queued"]
            /\ launchEvt' = IF launchProgram[launchIdx].event THEN launchIdx ELSE launchEvt
            /\ launchPc' = "flush"
            /\ UNCHANGED launchResult
       ELSE /\ launchPc' = "return"
            /\ launchResult' = "Error"
            /\ UNCHANGED <<launchStatus, launchEvt>>
    /\ UNCHANGED <<notLaunchVars, launchProgram, launchIdx>>

\* flushQueue: clFlush hands the queued commands to the device and returns.
LaunchFlush ==
    /\ phase = "launch"
    /\ launchPc = "flush"
    /\ launchStatus' = [i \in DOMAIN launchStatus |->
                            IF launchStatus[i] = "queued" THEN "submitted" ELSE launchStatus[i]]
    /\ launchPc' = "wait"
    /\ UNCHANGED <<notLaunchVars, launchProgram, launchIdx, launchEvt, launchResult>>

\* CLEvent::wait: Success at once when clEvent is NULL; otherwise
\* clWaitForEvents blocks until the launch of the event is complete, and the
\* event is reset.  Then the next launch, or return Success after the last.
LaunchWait ==
    /\ phase = "launch"
    /\ launchPc = "wait"
    /\ launchEvt # 0 => launchStatus[launchEvt] = "complete"
    /\ launchEvt' = 0
    /\ IF launchIdx = Len(launchProgram)
       THEN /\ launchPc' = "return"
            /\ launchResult' = "Success"
            /\ UNCHANGED launchIdx
       ELSE /\ launchPc' = "enqueue"
            /\ launchIdx' = launchIdx + 1
            /\ UNCHANGED launchResult
    /\ UNCHANGED <<notLaunchVars, launchProgram, launchStatus>>

\* The device finishes the oldest submitted kernel (in-order queue).
LaunchDeviceCompletes ==
    /\ phase = "launch"
    /\ \E i \in DOMAIN launchStatus :
          /\ launchStatus[i] = "submitted"
          /\ \A j \in 1..(i - 1) : launchStatus[j] # "submitted"
          /\ launchStatus' = [launchStatus EXCEPT ![i] = "complete"]
    /\ UNCHANGED <<notLaunchVars, launchProgram, launchIdx, launchPc, launchEvt, launchResult>>

NextLaunch ==
    \/ \E accepted \in BOOLEAN : LaunchEnqueue(accepted)
    \/ LaunchFlush
    \/ LaunchWait
    \/ LaunchDeviceCompletes

SpecLaunch == InitLaunch /\ [][NextLaunch]_vars

\* C22: every kernel launch is followed, before the next launch and before
\* the call returns, by a flush and a wait on the event of that launch: when
\* the host is about to enqueue a launch every earlier launch is complete,
\* and construct does not return Success before the computeBoundingBoxes
\* kernel has completed.
C22_LaunchWaitedBeforeNext ==
    phase = "launch" =>
        /\ launchPc = "enqueue" =>
              \A i \in 1..(launchIdx - 1) : launchStatus[i] = "complete"
        /\ launchResult = "Success" =>
              \A i \in DOMAIN launchStatus : launchStatus[i] = "complete"

\* The same statement for all launches but the last one of construct.
EarlierLaunchesWaited ==
    phase = "launch" =>
        /\ launchPc = "enqueue" =>
              \A i \in 1..(launchIdx - 1) : launchStatus[i] = "complete"
        /\ launchResult = "Success" =>
              \A i \in 1..(Len(launchProgram) - 1) : launchStatus[i] = "complete"

\* construct has returned Success while the computeBoundingBoxes kernel is
\* submitted and not complete.
ReturnedBeforeBoundingBoxesComplete ==
    /\ phase = "launch"
    /\ launchResult = "Success"
    /\ launchProgram[Len(launchProgram)].kernel = "computeBoundingBoxes"
    /\ launchStatus[Len(launchProgram)] = "submitted"

(***************************************************************************)
(* The leaf level of TwoLevelGridManager::construct: the statements after  *)
(* the cell-range kernel.  The per-item functions are those of             *)
(* TwoLevelGrid.h; the kernels that call them and the kernel that stores   *)
(* firstLeafIdx are not part of the host sources and are modelled from the *)
(* design description: a work item whose index is not below the element    *)
(* count it was given does nothing.                                        *)
(***************************************************************************)
MaxTopPairs == 5
MaxLeafPairs == 16

\* The leaf step of a top-level cell; a resolution of 0 gives an infinite
\* step in the source, which no loop iteration reads.
LeafStep(grid, topLevelCell) ==
    [k \in 1..3 |-> IF topLevelCell.res[k] = 0 THEN 0
                    ELSE grid.step[k] \div topLevelCell.res[k]]

\* The leaf cells of a top-level cell in the order of the three nested loops
\* (z outermost, x innermost), which is the order of their local indices.
LeafCellsOf(topLevelCell) ==
    0..(topLevelCell.res[1] * topLevelCell.res[2] * topLevelCell.res[3] - 1)

\* leafCell.bounds of the loop body for local leaf index l.
LeafCellBounds(grid, topLevelCell, topLevelCellIdx, l) ==
    LET leafStep == LeafStep(grid, topLevelCell)
        topLevelCoordinates == getCellRefFromIndex(topLevelCellIdx, grid.res)
        topBase == [k \in 1..3 |-> grid.box.lo[k] + topLevelCoordinates[k] * grid.step[k]]
        at == getCellRefFromIndex(l, topLevelCell.res)
    IN  [lo |-> [k \in 1..3 |-> topBase[k] + at[k] * leafStep[k]],
         hi |-> [k \in 1..3 |-> topBase[k] + at[k] * leafStep[k] + leafStep[k]]]

\* TwoLevelGrid.h countOverlappingLeafCells
countOverlappingLeafCells(v0, v1, v2, topLevelCell, topLevelCellIdx, grid) ==
    LET triangleAABB == calculateTriangleAABB(v0, v1, v2)
    IN  Cardinality({l \in LeafCellsOf(topLevelCell) :
            AABBOverlaps(LeafCellBounds(grid, topLevelCell, topLevelCellIdx, l),
                         triangleAABB)})

\* TwoLevelGrid.h countLeafPairs
countLeafPairs(scene, topLevelPairs, topLevelPairIdx, grid, cells) ==
    LET topLevelPair == topLevelPairs[topLevelPairIdx]
        t == scene[topLevelPair.y]
    IN  countOverlappingLeafCells(t[1], t[2], t[3], cells[topLevelPair.x], topLevelPair.x,
                                  grid)

\* TwoLevelGrid.h writeOverlappingLeafPairs: the pairs in the order the loops
\* store them, indexed by relevantLeafCount.  leafCellCenter and
\* leafCellHalfSize are passed doubled (see AABBTriangleIntersect).
writeOverlappingLeafPairs(v0, v1, v2, grid, topLevelCell, topLevelPair) ==
    LET leafStep == LeafStep(grid, topLevelCell)
        hits == {l \in LeafCellsOf(topLevelCell) :
                    LET b == LeafCellBounds(grid, topLevelCell, topLevelPair.x, l)
                    IN  AABBTriangleIntersect([k \in 1..3 |-> 2 * b.lo[k] + leafStep[k]],
                                              leafStep, v0, v1, v2)}
        nth(r) == CHOOSE l \in hits : Cardinality({m \in hits : m < l}) = r
    IN  [relevantLeafCount \in 0..(Cardinality(hits) - 1) |->
            [x |-> getCellIndex(getCellRefFromIndex(nth(relevantLeafCount), topLevelCell.res),
                                topLevelCell.res) + topLevelCell.firstLeafIdx,
             y |-> topLevelPair.y]]

\* The scenes of the leaf-level runs: at most MaxTopPairs top-level pairs,
\* every leaf step a whole number, no leaf resolution hanging on rounding,
\* at least one leaf pair counted (largestPowerOfTwo is applied to the
\* count) and at most MaxLeafPairs.
LeafSceneRepresentable(scene, grid) ==
    LET cells == TopLevelCells(scene, grid)
    IN  /\ SumSeq([g \in 1..Cardinality(DOMAIN scene) |->
                      countOverlappingCells(scene[g - 1][1], scene[g - 1][2], scene[g - 1][3],
                                            grid)]) <= MaxTopPairs
        /\ \A c \in DOMAIN cells : \A k \in 1..3 :
              /\ cells[c].res[k] > 0 => grid.step[k] % cells[c].res[k] = 0
              /\ ~CubeRootIsWhole(grid.step[k], grid.step[1] * grid.step[2] * grid.step[3],
                                  grid.leafDensity * Cardinality(TopCellPrims(scene, grid, c)))
        /\ LET counted == SumSeq([p \in 1..(Cardinality(DOMAIN cells)
                                               * Cardinality(DOMAIN scene)) |->
                   LET c == (p - 1) \div Cardinality(DOMAIN scene)
                       g == (p - 1) % Cardinality(DOMAIN scene)
                   IN  IF g \in TopCellPrims(scene, grid, c)
                       THEN countOverlappingLeafCells(scene[g][1], scene[g][2], scene[g][3],
                                                      cells[c], c, grid)
                       ELSE 0])
           IN  0 < counted /\ counted <= MaxLeafPairs

\* Values of the leaf density property (setLeafDensity); 2 is the value the
\* constructor sets.
LeafDensities == {2, 12}

\* TwoLevelGridManager::initializeFrame followed by the entry of construct,
\* as InitGrid with the leaf density drawn from LeafDensities.
InitConstruct ==
    /\ phase = "grid"
    /\ gridScene \in GridScenes
    /\ \E topLevelDensity \in GridDensities, leafDensity \in LeafDensities :
          LET prims == Cardinality(DOMAIN gridScene)
              bounds == ModelsBoundingBox(gridScene)
          IN  /\ GridRepresentable(bounds, prims, topLevelDensity)
              /\ gridData = calculateGridData(bounds, prims, topLevelDensity, leafDensity)
    /\ LeafSceneRepresentable(gridScene, gridData)
    /\ gridDevice \in GridDevices
    /\ counters =
          [i \in 0..(Max2(2 * largestPowerOfTwo(Cardinality(DOMAIN gridScene)),
                          2 * largestPowerOfTwo(gridData.res[1] * gridData.res[2]
                                                * gridData.res[3])) - 1) |-> 0]
    /\ prefixSumOutput = counters
    /\ pairsCount = 0
    /\ pairsArray = <<>>
    /\ cellRangesArray =
          [c \in 0..(gridData.res[1] * gridData.res[2] * gridData.res[3] - 1) |->
              [x |-> 0, y |-> 0]]
    /\ gridPc = "prepareData"
    /\ gridItems = {}
    /\ gridResult = "none"
    /\ scanSize = 0
    /\ scanInput = <<>>
    /\ scanOutput = <<>>
    /\ scanOffset = 0
    /\ scanPc = "idle"
    /\ scanResult = "none"
    /\ scanDevice = [wg |-> gridDevice.wg, localMem |-> gridDevice.localMem]
    /\ scanLaunches = 0
    /\ SortIdle
    /\ BvhIdle
    /\ TlgIdle
    /\ FramesIdle
    /\ HostIdle

notLeafVars == <<phase, bvhVars, bbVars, travVars, gridInputs, tlgRay, leavesArray, tlgIdx,
                 tlgNext, tlgPc, tlgResult, tlgLeaf, frameVars, refVars, resizeVars, mainVars,
                 launchVars, lifeVars>>

\* Values an element of a newly created device memory object may hold.
UninitialisedCounts == {0, 1}

\* _pairsCountPowOfTwo
pairsCountPowOfTwo == 2 * largestPowerOfTwo(pairsCount)

\* construct, lines 320-340: the countLeafCells kernel (work item c runs
\* fillTopLevelCell for cell c and writes only the elements of that cell),
\* then computePrefixSum is entered on the first _cellsCountPowOfTwo counters.
LeafCountCells ==
    /\ GridRangesWritten
    /\ topLevelCells' =
          [c \in GridCells |->
              [res |-> calcLeafCellResolution(cellRangesArray[c].y - cellRangesArray[c].x,
                                              gridData),
               firstLeafIdx |-> 0]]
    /\ counters' = [i \in DOMAIN counters |->
                       IF i \in GridCells
                       THEN topLevelCells'[i].res[1] * topLevelCells'[i].res[2]
                               * topLevelCells'[i].res[3]
                       ELSE counters[i]]
    /\ gridPc' = "leafCellsPrefixSum"
    /\ gridItems' = {}
    /\ scanSize' = 2 * largestPowerOfTwo(Cardinality(GridCells))
    /\ scanInput' = [i \in 0..(scanSize' - 1) |-> counters'[i]]
    /\ scanOutput' = [i \in 0..(scanSize' - 1) |-> prefixSumOutput[i]]
    /\ scanOffset' = 0
    /\ scanPc' = "check"
    /\ scanResult' = "none"
    /\ scanLaunches' = 0
    /\ UNCHANGED <<notLeafVars, sortVars, scanDevice, prefixSumOutput, pairsCount, pairsArray,
                   cellRangesArray, gridResult, leafVars>>

\* construct, lines 341-363: computePrefixSum has returned; _leafCellsCount is
\* read back and the kernel that stores firstLeafIdx runs: the first leaf of
\* cell c is the sum of the leaf counts of the cells before c.
LeafCellsPrefixSumReturn ==
    /\ gridPc = "leafCellsPrefixSum"
    /\ scanPc = "return"
    /\ prefixSumOutput' = [i \in DOMAIN prefixSumOutput |->
                               IF i < scanSize THEN scanOutput[i] ELSE prefixSumOutput[i]]
    /\ IF scanResult = "Error"
       THEN /\ gridPc' = "return"
            /\ gridResult' = "Error"
            /\ UNCHANGED topLevelCells
       ELSE /\ topLevelCells' =
                  [c \in DOMAIN topLevelCells |->
                      [topLevelCells[c] EXCEPT
                          !.firstLeafIdx = IF c = 0 THEN 0 ELSE scanOutput[c - 1]]]
            /\ gridPc' = "resizeCounters"
            /\ UNCHANGED gridResult
    /\ UNCHANGED <<notLeafVars, sortVars, scanVars, counters, pairsCount, pairsArray,
                   cellRangesArray, gridItems, leafVars>>

\* CLBuffer::resize applied to a buffer of construct whose size and actual
\* size are the length of data: a smaller size keeps the memory object and
\* its contents, any other size releases it and creates one with
\* uninitialised contents.
ResizedContents(data, newSize, fill) ==
    IF newSize < Cardinality(DOMAIN data) THEN data
    ELSE [i \in 0..(newSize - 1) |-> fill]

\* construct, lines 368-372: _counters and _prefixSumOutput are resized to
\* _pairsCountPowOfTwo elements.
LeafResizeCounters ==
    /\ gridPc = "resizeCounters"
    /\ \E fill \in UninitialisedCounts :
          /\ counters' = ResizedContents(counters, pairsCountPowOfTwo, fill)
          /\ prefixSumOutput' = ResizedContents(prefixSumOutput, pairsCountPowOfTwo, fill)
    /\ gridPc' = "prepareLeafData"
    /\ UNCHANGED <<notLeafVars, sortVars, scanVars, pairsCount, pairsArray, cellRangesArray,
                   gridItems, gridResult, topLevelCells, leafVars>>

\* Work item i of the prepareLeafData kernel (global size _pairsCountPowOfTwo,
\* local size _wavefront): countLeafPairs for top-level pair i.
LeafPrepareData(i) ==
    /\ gridPc = "prepareLeafData"
    /\ pairsCountPowOfTwo % gridDevice.wavefront = 0
    /\ i \in 0..(pairsCount - 1) \ gridItems
    /\ counters' = [counters EXCEPT ![i] =
                       countLeafPairs(gridScene, pairsArray, i, gridData, topLevelCells)]
    /\ gridItems' = gridItems \cup {i}
    /\ UNCHANGED <<notLeafVars, sortVars, scanVars, prefixSumOutput, pairsCount, pairsArray,
                   cellRangesArray, gridPc, gridResult, topLevelCells, leafVars>>

\* construct, line 389: the kernel has finished; computePrefixSum is entered
\* with workSize = _pairsCountPowOfTwo.
LeafPrefixSumCall ==
    /\ gridPc = "prepareLeafData"
    /\ pairsCountPowOfTwo % gridDevice.wavefront = 0
    /\ gridItems = 0..(pairsCount - 1)
    /\ gridPc' = "leafPairsPrefixSum"
    /\ gridItems' = {}
    /\ scanSize' = pairsCountPowOfTwo
    /\ scanInput' = [i \in 0..(scanSize' - 1) |-> counters[i]]
    /\ scanOutput' = [i \in 0..(scanSize' - 1) |-> prefixSumOutput[i]]
    /\ scanOffset' = 0
    /\ scanPc' = "check"
    /\ scanResult' = "none"
    /\ scanLaunches' = 0
    /\ UNCHANGED <<notLeafVars, sortVars, scanDevice, counters, prefixSumOutput, pairsCount,
                   pairsArray, cellRangesArray, gridResult, topLevelCells, leafVars>>

\* construct, lines 393-411: computePrefixSum has returned; _leafPairsCount is
\* read from the last element of the resized prefix-sum buffer and the leaf
\* pair array is allocated and filled with (UINT_MAX, UINT_MAX).
LeafPrefixSumReturn ==
    /\ gridPc = "leafPairsPrefixSum"
    /\ scanPc = "return"
    /\ prefixSumOutput' = [i \in DOMAIN prefixSumOutput |->
                               IF i < scanSize THEN scanOutput[i] ELSE prefixSumOutput[i]]
    /\ IF scanResult = "Error"
       THEN /\ gridPc' = "return"
            /\ gridResult' = "Error"
            /\ UNCHANGED leafVars
       ELSE /\ leafPairsCount' = scanOutput[pairsCountPowOfTwo - 1]
            /\ leafPairsArray' = [i \in 0..(2 * largestPowerOfTwo(leafPairsCount') - 1) |->
                                     [x |-> UINT_MAX, y |-> UINT_MAX]]
            /\ gridPc' = "writeLeafPairs"
            /\ UNCHANGED gridResult
    /\ UNCHANGED <<notLeafVars, sortVars, scanVars, counters, pairsCount, pairsArray,
                   cellRangesArray, gridItems, topLevelCells>>

\* Work item i of the writeLeafPairs kernel: writeLeafPairs for top-level
\* pair i.
LeafWritePairs(i) ==
    /\ gridPc = "writeLeafPairs"
    /\ i \in 0..(pairsCount - 1) \ gridItems
    /\ LET start == myStart(prefixSumOutput, counters, i)
           t == gridScene[pairsArray[i].y]
           written == writeOverlappingLeafPairs(t[1], t[2], t[3], gridData,
                                                topLevelCells[pairsArray[i].x], pairsArray[i])
       IN  leafPairsArray' = [j \in DOMAIN leafPairsArray |->
               IF (j - start) \in DOMAIN written THEN written[j - start]
               ELSE leafPairsArray[j]]
    /\ gridItems' = gridItems \cup {i}
    /\ UNCHANGED <<notLeafVars, sortVars, scanVars, counters, prefixSumOutput, pairsCount,
                   pairsArray, cellRangesArray, gridPc, gridResult, topLevelCells,
                   leafPairsCount>>

\* construct, line 431: the kernel has finished; BitonicSort::sort is entered
\* on the leaf pair array.
LeafSortCall ==
    /\ gridPc = "writeLeafPairs"
    /\ gridItems = 0..(pairsCount - 1)
    /\ gridPc' = "leafSort"
    /\ gridItems' = {}
    /\ sortItems' = Cardinality(DOMAIN leafPairsArray)
    /\ sortInput' = leafPairsArray
    /\ sortData' = leafPairsArray
    /\ sortLength' = 1
    /\ sortInc' = 0
    /\ sortPc' = "for"
    /\ sortKid' = "none"
    /\ sortResult' = "none"
    /\ UNCHANGED <<notLeafVars, scanVars, counters, prefixSumOutput, pairsCount, pairsArray,
                   cellRangesArray, gridResult, topLevelCells, leafVars>>

\* construct, lines 431-452: sort has returned or was left by an exception;
\* on success the leaf range array is allocated and the leaf range kernel is
\* given _leafPairsCount as the number of pairs.
LeafSortReturn ==
    /\ gridPc = "leafSort"
    /\ sortPc \in {"return", "unwound"}
    /\ leafPairsArray' = sortData
    /\ IF sortPc = "unwound"
       THEN gridPc' = "unwound" /\ gridResult' = "Exception"
       ELSE IF sortResult = "Error"
       THEN gridPc' = "return" /\ gridResult' = "Error"
       ELSE gridPc' = "extractLeafCells" /\ UNCHANGED gridResult
    /\ UNCHANGED <<notLeafVars, sortVars, scanVars, counters, prefixSumOutput, pairsCount,
                   pairsArray, cellRangesArray, gridItems, topLevelCells, leafPairsCount>>

\* construct: the enqueue, flush or wait of one of the two leaf kernels fails;
\* the enqueue is refused when the global size is not a multiple of the local
\* size.
LeafKernelFails ==
    /\ gridPc \in {"prepareLeafData", "writeLeafPairs"}
    /\ gridPc' = "return"
    /\ gridResult' = "Error"
    /\ UNCHANGED <<notLeafVars, sortVars, scanVars, counters, prefixSumOutput, pairsCount,
                   pairsArray, cellRangesArray, gridItems, topLevelCells, leafVars>>

NextConstruct ==
    \/ NextGrid
    \/ LeafCountCells
    \/ LeafCellsPrefixSumReturn
    \/ LeafResizeCounters
    \/ \E i \in 0..(MaxTopPairs - 1) : LeafPrepareData(i)
    \/ LeafPrefixSumCall
    \/ LeafPrefixSumReturn
    \/ \E i \in 0..(MaxTopPairs - 1) : LeafWritePairs(i)
    \/ LeafSortCall
    \/ LeafSortReturn
    \/ LeafKernelFails

SpecConstruct == InitConstruct /\ [][NextConstruct]_vars

\* The indices of the top-level pair array that work item g of the writePairs
\* kernel stores to.
TopWrites(g) ==
    {myStart(prefixSumOutput, counters, g) + k :
        k \in DOMAIN writeOverlappingPairs(gridScene[g][1], gridScene[g][2], gridScene[g][3],
                                           gridData, g)}

\* The indices of the leaf pair array that work item i of the writeLeafPairs
\* kernel stores to.
LeafWrites(i) ==
    {myStart(prefixSumOutput, counters, i) + k :
        k \in DOMAIN writeOverlappingLeafPairs(gridScene[pairsArray[i].y][1],
                                               gridScene[pairsArray[i].y][2],
                                               gridScene[pairsArray[i].y][3], gridData,
                                               topLevelCells[pairsArray[i].x], pairsArray[i])}

\* The ranges of a write kernel: every item writes inside its own range of
\* the prefix sum and inside [0, total), not more than its count, and no two
\* items write the same index; the array holds a pair at the indices written
\* by the items that have run and the fill pattern everywhere else.
WriteRangesDisjoint(items, writes(_), array, total) ==
    /\ \A i \in items :
          /\ \A j \in writes(i) : /\ prefixSumOutput[i] - counters[i] <= j
                                  /\ j < prefixSumOutput[i]
                                  /\ 0 <= j
                                  /\ j < total
          /\ Cardinality(writes(i)) <= counters[i]
    /\ \A i, j \in items : i # j => writes(i) \cap writes(j) = {}
    /\ \A j \in DOMAIN array :
          (array[j].x # UINT_MAX) <=> (\E i \in gridItems : j \in writes(i))

\* C23: in both write phases of the grid build the index ranges written by
\* different work items are pairwise disjoint and lie inside [0, total): work
\* item i writes only indices in [prefix[i] - count[i], prefix[i]) and never
\* more entries than count[i], for the top-level pairs (count and write use
\* the same cell span) and for the leaf pairs (count by the box test, write
\* by the triangle test).
C23_WritesInOwnRange ==
    /\ (phase = "grid" /\ gridPc = "writePairs") =>
          WriteRangesDisjoint(DOMAIN gridScene, TopWrites, pairsArray, pairsCount)
    /\ (phase = "grid" /\ gridPc = "writeLeafPairs") =>
          WriteRangesDisjoint(0..(pairsCount - 1), LeafWrites, leafPairsArray, leafPairsCount)

\* The leaf write kernel has finished on a grid where several items wrote a
\* pair and one item wrote fewer pairs than it had counted; the top-level
\* write of the same run gave a triangle several pairs.
C23_Witness ==
    /\ phase = "grid"
    /\ gridPc = "writeLeafPairs"
    /\ gridItems = 0..(pairsCount - 1)
    /\ Cardinality({i \in gridItems : LeafWrites(i) # {}}) >= 2
    /\ \E i \in gridItems : Cardinality(LeafWrites(i)) < counters[i]
    /\ \E g \in DOMAIN gridScene : CountValue(pairsArray, pairsCount, g) >= 2

\* (UINT_MAX, UINT_MAX), the fill pattern of the pair arrays.
IsSentinel(pair) == pair.x = UINT_MAX /\ pair.y = UINT_MAX

\* In a pair array no sentinel stands before a real pair.
RealsPrecedeSentinels(array) ==
    \A i, j \in DOMAIN array : (i < j /\ IsSentinel(array[i])) => IsSentinel(array[j])

\* The first count entries of a pair array are real pairs.
CountCoversOnlyReals(array, count) ==
    \A i \in DOMAIN array : i < count => ~IsSentinel(array[i])

\* C24: after sorting, all real pairs of a pair array precede all
\* (UINT_MAX, UINT_MAX) sentinels, and the element count handed to the later
\* stages covers only real pairs: _pairsCount for the sorted top-level pairs
\* (cell-range kernel), _leafPairsCount for the sorted leaf pairs (leaf-range
\* kernel).
C24_CountCoversOnlyRealPairs ==
    /\ (phase = "grid" /\ gridPc = "writeCellRanges") =>
          /\ RealsPrecedeSentinels(pairsArray)
          /\ CountCoversOnlyReals(pairsArray, pairsCount)
    /\ (phase = "grid" /\ gridPc = "extractLeafCells") =>
          /\ RealsPrecedeSentinels(leafPairsArray)
          /\ CountCoversOnlyReals(leafPairsArray, leafPairsCount)

\* The part of the statement that holds: the real pairs precede the sentinels
\* in both sorted arrays, and _pairsCount covers only real top-level pairs.
SortedSentinelsLast ==
    /\ (phase = "grid" /\ gridPc = "writeCellRanges") =>
          /\ RealsPrecedeSentinels(pairsArray)
          /\ CountCoversOnlyReals(pairsArray, pairsCount)
    /\ (phase = "grid" /\ gridPc = "extractLeafCells") =>
          RealsPrecedeSentinels(leafPairsArray)

\* The leaf-range kernel is about to be given a count that reaches into the
\* sentinels, in a run whose counters held no value past the last top-level
\* pair: the triangle test wrote fewer leaf pairs than the box test counted.
SentinelInsideLeafPairsCount ==
    /\ phase = "grid"
    /\ gridPc = "extractLeafCells"
    /\ \A i \in pairsCount..(pairsCountPowOfTwo - 1) : counters[i] = 0
    /\ leafPairsCount >= 2
    /\ ~IsSentinel(leafPairsArray[0])
    /\ IsSentinel(leafPairsArray[leafPairsCount - 1])

\* The three prefix-sum passes of construct and the true element count of
\* each: triangles, top-level cells, top-level pairs.
PrefixSumPasses == {"computePrefixSum", "leafCellsPrefixSum", "leafPairsPrefixSum"}
PassCount ==
    IF gridPc = "computePrefixSum" THEN Cardinality(DOMAIN gridScene)
    ELSE IF gridPc = "leafCellsPrefixSum" THEN Cardinality(GridCells)
    ELSE pairsCount

\* The counters handed to computePrefixSum are zero from the true element
\* count on, and a successful scan ends with the total of the true elements.
TailZeroAndTotalTrue ==
    /\ scanPc = "check" => \A i \in PassCount..(scanSize - 1) : scanInput[i] = 0
    /\ (scanPc = "return" /\ scanResult = "Success") =>
          scanOutput[scanSize - 1] = SumSeq([k \in 1..PassCount |-> scanInput[k - 1]])

\* C25: at the start of each of the three prefix-sum passes of construct every
\* counter element with index at or above the true element count and below
\* the padded power-of-two length is zero, so the last element of the scan
\* equals the true total of the pass.
C25_CounterTailZero ==
    (phase = "grid" /\ gridPc \in PrefixSumPasses) => TailZeroAndTotalTrue

\* The same statement for the first two passes (triangle counts and leaf cell
\* counts), which follow a fill of the whole counter buffer with 0.
FilledPassesTailZero ==
    (phase = "grid" /\ gridPc \in {"computePrefixSum", "leafCellsPrefixSum"}) =>
        TailZeroAndTotalTrue

\* The third pass has returned Success with a total larger than the sum of
\* the leaf pair counts: the counters past the last top-level pair were not
\* zero when the pass began.
LeafPairTotalTooLarge ==
    /\ phase = "grid"
    /\ gridPc = "leafPairsPrefixSum"
    /\ scanPc = "return"
    /\ scanResult = "Success"
    /\ pairsCount < scanSize
    /\ \E i \in pairsCount..(scanSize - 1) : scanInput[i] # 0
    /\ scanOutput[scanSize - 1] > SumSeq([k \in 1..pairsCount |-> scanInput[k - 1]])

\* The same with counters that were kept by the resize (the new size is
\* smaller than the buffer): the values are leaf cell counts of the second
\* pass.
LeafPairTotalCountsStaleCells ==
    /\ LeafPairTotalTooLarge
    /\ pairsCountPowOfTwo < Cardinality(DOMAIN counters)

(***************************************************************************)
(* Child links of the finished radix tree                                  *)
(***************************************************************************)
\* The (internal node, child slot) pairs that name node v as a child.
ChildSlotsNaming(nd, n, v) ==
    {ps \in (n..(2 * n - 2)) \X {"A", "B"} :
        (IF ps[2] = "A" THEN nd[ps[1]].childA ELSE nd[ps[1]].childB) = v}

\* C26: the N-1 internal nodes name every node other than the root as a
\* child exactly once and the root never, for sorted keys with duplicates;
\* while the work-items run in any order no parent field is written twice.
C26_EveryNodeNamedOnce ==
    /\ \A v \in DOMAIN parentWrites : parentWrites[v] <= 1
    /\ TreeComplete =>
          \A v \in 0..(2 * numLeaves - 2) :
              /\ Cardinality(ChildSlotsNaming(nodes, numLeaves, v))
                    = IF v = numLeaves THEN 0 ELSE 1
              /\ parentWrites[v] = 1
              /\ v # numLeaves =>
                    \E ps \in ChildSlotsNaming(nodes, numLeaves, v) :
                        nodes[v].parent = ps[1]

\* Witness of C26: a finished tree of at least four leaves whose keys hold
\* a duplicated pair and whose leaf order is not the identity.
C26_Witness ==
    /\ TreeComplete
    /\ numLeaves >= 4
    /\ \E i \in 0..(numLeaves - 2) : mcToLeaves[i].x = mcToLeaves[i + 1].x
    /\ \E i \in 0..(numLeaves - 1) : mcToLeaves[i].y # i
    /\ \E v \in numLeaves..(2 * numLeaves - 2) :
          Cardinality(ChildSlotsNaming(nodes, numLeaves, v)) = 1

(***************************************************************************)
(* Work sizes of the kernel launches                                       *)
(***************************************************************************)
\* clEnqueueNDRangeKernel with an explicit local size: the global size is
\* positive and a multiple of the local size.
WorkSizeValid(launch) == launch.global > 0 /\ launch.global % launch.local = 0

\* C27: every kernel launch uses a global work size that is a positive
\* multiple of its local work size, for every scene of at least one triangle
\* and every wavefront and work-group size.
C27_GlobalMultipleOfLocal ==
    phase = "launch" =>
        \A i \in DOMAIN launchProgram : WorkSizeValid(launchProgram[i])

\* The same statement for the launches other than the radix-tree kernel.
OtherLaunchSizesValid ==
    phase = "launch" =>
        \A i \in DOMAIN launchProgram :
            launchProgram[i].kernel # "buildRadixTree" => WorkSizeValid(launchProgram[i])

\* The host is about to enqueue the radix-tree kernel with a global work
\* size of 0: the scene has one triangle.
RadixTreeLaunchOfSizeZero ==
    /\ phase = "launch"
    /\ launchPc = "enqueue"
    /\ launchProgram[launchIdx].kernel = "buildRadixTree"
    /\ launchProgram[launchIdx].global = 0
    /\ launchProgram[launchIdx].local > 1

(***************************************************************************)
(* Order of descent of the BVH traversal                                   *)
(***************************************************************************)
\* tA and tB of lines 366-367 at the current internal node.
EntryParameter(child) ==
    AABBIntersect(boundingBox[child], travRay.origin, travRay.direction)

\* The traversal is at an internal node both of whose child boxes are valid.
BothChildrenValid ==
    /\ phase = "traverse"
    /\ travPc = "loop"
    /\ travCurrent # UINT_MAX
    /\ nodes[travCurrent].type = INNER_NODE
    /\ ChildValid(boundingBox[nodes[travCurrent].childA], travRay)
    /\ ChildValid(boundingBox[nodes[travCurrent].childB], travRay)

\* The ray enters the box of child near ahead of the origin and before
\* the box of child far: 0 < tNear < tFar.
EntersFirst(near, far) ==
    /\ FGreater(EntryParameter(near), 0)
    /\ FGreater(EntryParameter(far), EntryParameter(near))

\* The iteration continues with child near and pushes child far.
Descends(near, far) ==
    /\ travCurrent' = near
    /\ travStack' = Append(travStack, far)

\* C28: at an internal node where both child boxes are valid the traversal
\* continues with the child whose box is entered at the smaller ray
\* parameter and pushes the other child.
C28_DescendsNearerChild ==
    [][BothChildrenValid =>
          LET a == nodes[travCurrent].childA
              b == nodes[travCurrent].childB
          IN  /\ EntersFirst(a, b) => Descends(a, b)
              /\ EntersFirst(b, a) => Descends(b, a)
              /\ Descends(a, b) \/ Descends(b, a)]_vars

\* What the iteration does: child A is continued with and child B is pushed,
\* whatever the two entry parameters are.
DescendsChildAFirst ==
    [][BothChildrenValid =>
          Descends(nodes[travCurrent].childA, nodes[travCurrent].childB)]_vars

\* The traversal has just continued with child A of a node and pushed
\* child B, and the ray enters the box of child B first: 0 < tB < tA.
FartherChildDescended ==
    /\ phase = "traverse"
    /\ travPc = "loop"
    /\ travCurrent \notin {UINT_MAX, numLeaves}
    /\ LET p == nodes[travCurrent].parent
       IN  /\ nodes[p].childA = travCurrent
           /\ travStack[Len(travStack)] = nodes[p].childB
           /\ EntersFirst(nodes[p].childB, travCurrent)

(***************************************************************************)
(* Kernel selection of the bitonic host loop                               *)
(***************************************************************************)
\* The largest radix kernel that inc allows.
LargestRadixKernel(inc) ==
    IF inc >= 8 THEN "B16" ELSE IF inc >= 4 THEN "B8" ELSE IF inc >= 2 THEN "B4" ELSE "B2"

\* A pass of the while loop launches a kernel.
SortPassLaunches ==
    /\ phase = "sort"
    /\ sortPc = "while"
    /\ sortInc > 0
    /\ sortInc' # sortInc

\* C29: at every step of the host loop the kernel launched is B16 when
\* inc >= 8, otherwise B8 when inc >= 4, otherwise B4 when inc >= 2,
\* otherwise B2.
C29_LargestRadixKernelLaunched ==
    [][SortPassLaunches => sortKid' = LargestRadixKernel(sortInc)]_vars

\* The same statement for the passes with inc below 8.
SmallIncLargestKernel ==
    [][(SortPassLaunches /\ sortInc < 8) => sortKid' = LargestRadixKernel(sortInc)]_vars

\* A B8 kernel has just been launched for inc = 8: the pass went from
\* inc = 8 to inc = 1.
B8LaunchedForIncOfEight ==
    /\ phase = "sort"
    /\ sortPc = "while"
    /\ sortLength = 8
    /\ sortInc = 1
    /\ sortKid = "B8"

(***************************************************************************)
(* Lifetime of a CLBuffer: construction, resize calls that may fail to     *)
(* allocate, destruction.  clBuffer.mem is _actualBuffer: the number of    *)
(* the memory object, 0 for NULL; it keeps naming a released object after  *)
(* a resize to 0.                                                          *)
(***************************************************************************)
InitLifetime ==
    /\ phase = "lifetime"
    /\ clBuffer \in ConstructedBuffers
    /\ memReleases = <<0>>
    /\ bufferState = "alive"
    /\ resizeArg = -1
    /\ resizePrev = <<>>
    /\ frameNo = 0
    /\ framePc = "idle"
    /\ frameRead = <<>>
    /\ RefIdle
    /\ MainIdle
    /\ LaunchIdle
    /\ LeafIdle
    /\ gridScene = <<>>
    /\ gridData = <<>>
    /\ gridDevice = <<>>
    /\ GridBuildIdle
    /\ TlgIdle
    /\ BvhIdle
    /\ BBoxIdle
    /\ TravIdle
    /\ SortIdle
    /\ ScanIdle

notLifetimeVars == <<phase, bvhVars, sortVars, scanVars, bbVars, travVars, gridInputs,
                     gridBuildVars, tlgVars, frameNo, framePc, frameRead, refVars, mainVars,
                     launchVars, leafVars>>

\* resize goes past its two early returns (lines 72-82) and reaches the
\* release of line 84.
Reallocates(buf, newSize) ==
    ~(newSize < buf.size) /\ ~(newSize > buf.size /\ newSize < buf.actualSize)

\* if (_actualSize > 0) clReleaseMemObject(_actualBuffer): the release count
\* of the object named by the handle goes up; a NULL handle names none.
ReleaseIfAllocated(buf, releases) ==
    IF buf.actualSize > 0 /\ buf.mem # 0
    THEN [releases EXCEPT ![buf.mem] = @ + 1]
    ELSE releases

\* CLBuffer::resize with the outcome of createDeviceBuffer.  On failure
\* clCreateBuffer has stored NULL in _actualBuffer and resize throws, after
\* _actualSize = _size = newSize.
LifeResize(newSize, allocated) ==
    /\ phase = "lifetime"
    /\ bufferState = "alive"
    /\ clBuffer.made < MaxBuffersMade
    /\ allocated \/ (Reallocates(clBuffer, newSize) /\ newSize > 0)
    /\ resizePrev' = clBuffer
    /\ resizeArg' = newSize
    /\ IF ~Reallocates(clBuffer, newSize)
       THEN /\ clBuffer' = resize(clBuffer, newSize)
            /\ UNCHANGED memReleases
       ELSE LET released == ReleaseIfAllocated(clBuffer, memReleases)
            IN  IF newSize = 0
                THEN /\ clBuffer' = [resize(clBuffer, newSize) EXCEPT !.mem = clBuffer.mem]
                     /\ memReleases' = released
                ELSE IF allocated
                THEN /\ clBuffer' = resize(clBuffer, newSize)
                     /\ memReleases' = Append(released, 0)
                ELSE /\ clBuffer' = [size |-> newSize, actualSize |-> newSize, mem |-> 0,
                                     made |-> clBuffer.made, data |-> <<>>]
                     /\ memReleases' = released
    /\ UNCHANGED <<notLifetimeVars, bufferState>>

\* CLBuffer::~CLBuffer
LifeDestroy ==
    /\ phase = "lifetime"
    /\ bufferState = "alive"
    /\ memReleases' = ReleaseIfAllocated(clBuffer, memReleases)
    /\ bufferState' = "destroyed"
    /\ UNCHANGED <<notLifetimeVars, clBuffer, resizeVars>>

NextLifetime ==
    \/ \E newSize \in 0..MaxBufferSize, allocated \in BOOLEAN : LifeResize(newSize, allocated)
    \/ LifeDestroy

SpecLifetime == InitLifetime /\ [][NextLifetime]_vars

\* Size of the device memory the buffer holds: that of the memory object
\* named by _actualBuffer while it is not released, 0 when there is none.
AllocatedSize ==
    IF clBuffer.mem # 0 /\ memReleases[clBuffer.mem] = 0 THEN clBuffer.actualSize ELSE 0

\* C30: over any sequence of resize calls followed by destruction the used
\* size never exceeds the allocated size after any call, and each memory
\* object created is released exactly once, also when an allocation inside
\* resize fails.
C30_SizesAndReleases ==
    phase = "lifetime" =>
        /\ bufferState = "alive" => clBuffer.size <= AllocatedSize
        /\ \A m \in DOMAIN memReleases : memReleases[m] <= 1
        /\ bufferState = "destroyed" => \A m \in DOMAIN memReleases : memReleases[m] = 1

\* The part of the statement about releases, and the order of the two size
\* fields.
ReleasedOnceAndFieldsOrdered ==
    phase = "lifetime" =>
        /\ clBuffer.size <= clBuffer.actualSize
        /\ \A m \in DOMAIN memReleases : memReleases[m] <= 1
        /\ bufferState = "destroyed" => \A m \in DOMAIN memReleases : memReleases[m] = 1

\* The statement while no allocation has failed.
SizesWithinMemoryUnlessFailed ==
    (phase = "lifetime" /\ bufferState = "alive" /\ clBuffer.size > AllocatedSize)
        => (clBuffer.mem = 0 /\ clBuffer.actualSize > 0)

\* A resize call has just failed to allocate: the old memory object is
\* released, the handle is NULL, and the used size is the requested size.
FailedResizeLeavesNoMemory ==
    /\ phase = "lifetime"
    /\ bufferState = "alive"
    /\ resizeArg > 0
    /\ clBuffer.size = resizeArg
    /\ clBuffer.mem = 0
    /\ resizePrev.mem # 0
    /\ memReleases[resizePrev.mem] = 1

====
